---------------------------- MODULE Spec2Model ----------------------------
(***************************************************************************)
(* Model of the warehouse movement engine: LaneNavigator (lane graph) and  *)
(* WarehouseSimulator (entities, motion models, event detectors, tick      *)
(* timer).                                                                 *)
(*                                                                         *)
(* Numbers.  The program computes in floating point; the model computes    *)
(* in fixed point with three decimals: a length of 1.0 is 1000, a speed of *)
(* 1.0 m/s is 1000, a lane progress of 1.0 is 1000, a time is in           *)
(* milliseconds.  Products are divided back by Unit, truncating toward     *)
(* zero, so that an interpolation stays between its two arguments as it    *)
(* does in the program.                                                    *)
(***************************************************************************)
EXTENDS Integers, Sequences, FiniteSets, TLC

Unit == 10 * 100

Abs(a) == IF a < 0 THEN -a ELSE a

Max(a, b) == IF a >= b THEN a ELSE b

Min(a, b) == IF a <= b THEN a ELSE b

\* Division truncating toward zero (b > 0).
TruncDiv(a, b) == IF a >= 0 THEN a \div b ELSE -((-a) \div b)

RECURSIVE IsqrtIter(_, _, _)
IsqrtIter(n, lo, hi) ==
    IF lo >= hi THEN lo
    ELSE LET mid == (lo + hi + 1) \div 2
         IN  IF mid * mid <= n THEN IsqrtIter(n, mid, hi)
                               ELSE IsqrtIter(n, lo, mid - 1)

\* Math.sqrt on fixed-point squares: the integer square root.
Isqrt(n) == IF n <= 0 THEN 0 ELSE IsqrtIter(n, 0, Min(n, 46340))

Pt(x, y) == [x |-> x, y |-> y]

\* A lane of the network: an id and its polyline.
Lane(id, pts) == [id |-> id, points |-> pts]

-----------------------------------------------------------------------------
(***************************************************************************)
(* LaneNavigator                                                           *)
(***************************************************************************)

\* LaneNavigator.distance: Euclidean distance of two points.
Distance(p1, p2) == Isqrt((p1.x - p2.x) * (p1.x - p2.x) + (p1.y - p2.y) * (p1.y - p2.y))

connectionRadius == 3000

\* The distance test with <= in place of <.
Closer_Inclusive(p, q, r) ==
    /\ Abs(p.x - q.x) <= r
    /\ Abs(p.y - q.y) <= r
    /\ (p.x - q.x) * (p.x - q.x) + (p.y - q.y) * (p.y - q.y) <= r * r

\* distance(p, q) < r, compared on the squares (exact).
Closer(p, q, r) ==
    /\ Abs(p.x - q.x) < r
    /\ Abs(p.y - q.y) < r
    /\ (p.x - q.x) * (p.x - q.x) + (p.y - q.y) * (p.y - q.y) < r * r

HasEndpoints(lane) == Len(lane.points) > 0

LaneStart(lane) == lane.points[1]

LaneEnd(lane) == lane.points[Len(lane.points)]

\* The endpoint test taken from the start of `lane` only.
EndpointsClose_FromStart(lane, otherLane) ==
    \/ Closer(LaneStart(lane), LaneStart(otherLane), connectionRadius)
    \/ Closer(LaneStart(lane), LaneEnd(otherLane), connectionRadius)

\* The test of the inner loop of buildLaneConnections: any two endpoints close.
EndpointsClose(lane, otherLane) ==
    \/ Closer(LaneStart(lane), LaneStart(otherLane), connectionRadius)
    \/ Closer(LaneStart(lane), LaneEnd(otherLane), connectionRadius)
    \/ Closer(LaneEnd(lane), LaneStart(otherLane), connectionRadius)
    \/ Closer(LaneEnd(lane), LaneEnd(otherLane), connectionRadius)

\* The connections list buildLaneConnections computes for one lane: the inner
\* loop over the other lanes, from index i on, in network order.
RECURSIVE ConnectionsFrom(_, _, _)
ConnectionsFrom(lanes, lane, i) ==
    IF i > Len(lanes) THEN << >>
    ELSE (IF /\ lane.id # lanes[i].id
             /\ HasEndpoints(lanes[i])
             /\ EndpointsClose(lane, lanes[i])
          THEN << lanes[i].id >> ELSE << >>)
         \o ConnectionsFrom(lanes, lane, i + 1)

ConnectionsOf(lanes, lane) == ConnectionsFrom(lanes, lane, 1)

\* buildLaneConnections: the map laneConnections.  A lane without points is
\* skipped (continue) and gets no entry; of two lanes with one id the later
\* one sets the entry last.
BuildLaneConnections(lanes) ==
    LET withEntry == { i \in 1..Len(lanes) : HasEndpoints(lanes[i]) }
        LastWith(id) == CHOOSE i \in withEntry :
                           /\ lanes[i].id = id
                           /\ \A j \in withEntry : lanes[j].id = id => j <= i
    IN  [ id \in { lanes[i].id : i \in withEntry } |->
            ConnectionsOf(lanes, lanes[LastWith(id)]) ]

\* this.laneConnections.get(id) || []
ConnectionsGet(conns, id) == IF id \in DOMAIN conns THEN conns[id] ELSE << >>

SeqToSet(s) == { s[i] : i \in 1..Len(s) }

\* getLane / lanes.find: the index of the first lane with this id, 0 for undefined.
LaneIndex(lanes, id) ==
    IF \E i \in 1..Len(lanes) : lanes[i].id = id
    THEN CHOOSE i \in 1..Len(lanes) :
            /\ lanes[i].id = id
            /\ \A j \in 1..(i - 1) : lanes[j].id # id
    ELSE 0

HasLane(lanes, id) == LaneIndex(lanes, id) # 0

GetLane(lanes, id) == lanes[LaneIndex(lanes, id)]

\* LaneNavigator.calculateLaneLength: the sum of the segment lengths (no floor).
RECURSIVE SegmentSum(_, _)
SegmentSum(pts, i) ==
    IF i >= Len(pts) THEN 0
    ELSE Distance(pts[i], pts[i + 1]) + SegmentSum(pts, i + 1)

NavLaneLength(lane) == SegmentSum(lane.points, 1)


\* null / undefined where a lane id is expected.
NoLane == ""

\* Math.atan2(dy, dx), to the nearest multiple of 45 degrees, as an index -3..4
\* (0 = east, 2 = north, 4 = west, -2 = south).  Headings are reported but never
\* read back by the motion or the detectors, so this is all the model keeps.
AngleIndex(dy, dx) ==
    LET ax == Abs(dx)
        ay == Abs(dy)
        flat == ay * 2414 < ax * Unit
        steep == ax * 2414 < ay * Unit
    IN  IF dx = 0 /\ dy = 0 THEN 0
        ELSE IF flat THEN (IF dx > 0 THEN 0 ELSE 4)
        ELSE IF steep THEN (IF dy > 0 THEN 2 ELSE -2)
        ELSE IF dx > 0 THEN (IF dy > 0 THEN 1 ELSE -1)
        ELSE (IF dy > 0 THEN 3 ELSE -3)

\* Math.atan2 in radians (pi / 4 = 0.785).
Atan2Rad(dy, dx) == AngleIndex(dy, dx) * 785

\* Math.atan2(dy, dx) * (180 / Math.PI)
Atan2Deg(dy, dx) == AngleIndex(dy, dx) * 45 * Unit

(***************************************************************************)
(* A progress value of advanceAlongLane.  Dividing by a lane length of 0   *)
(* gives Infinity or NaN in the program: kind is "num" (value v), "nan" or *)
(* "neginf"; +Infinity is already capped to 1.0 by Math.min.               *)
(***************************************************************************)
Num(v) == [kind |-> "num", v |-> v]

\* Math.min(1.0, laneProgress + distanceToTravel / laneLength)
NewProgress(laneProgress, distanceToTravel, laneLength) ==
    IF laneLength > 0
    THEN Num(Min(Unit, laneProgress + TruncDiv(distanceToTravel * Unit, laneLength)))
    ELSE IF distanceToTravel > 0 THEN Num(Unit)
    ELSE IF distanceToTravel = 0 THEN [kind |-> "nan", v |-> 0]
    ELSE [kind |-> "neginf", v |-> 0]

\* getPositionAtProgress, for a lane with at least one point.
GetPositionAtProgress(lane, progress) ==
    LET n == Len(lane.points)
        firstPoint == lane.points[1]
        lastPoint == lane.points[n]
        scaled == progress.v * (n - 1)
        segmentIndex == scaled \div Unit
        segmentProgress == scaled - segmentIndex * Unit
        start == lane.points[segmentIndex + 1]
        end == lane.points[segmentIndex + 2]
    IN  IF progress.kind = "neginf" THEN firstPoint
        ELSE IF progress.kind = "nan" THEN lastPoint
        ELSE IF progress.v <= 0 THEN firstPoint
        ELSE IF progress.v >= Unit THEN lastPoint
        ELSE IF segmentIndex >= n - 1 THEN lastPoint
        ELSE Pt(start.x + TruncDiv(segmentProgress * (end.x - start.x), Unit),
                start.y + TruncDiv(segmentProgress * (end.y - start.y), Unit))

\* getHeadingAtProgress: 0 for fewer than two points or an index outside the lane.
GetHeadingAtProgress(lane, progress) ==
    LET n == Len(lane.points)
        segmentIndex == (progress.v * (n - 1)) \div Unit
        clampedIndex == Min(segmentIndex, n - 2)
        start == lane.points[clampedIndex + 1]
        end == lane.points[clampedIndex + 2]
    IN  IF n < 2 THEN 0
        ELSE IF progress.kind # "num" THEN 0
        ELSE IF clampedIndex < 0 THEN 0
        ELSE Atan2Rad(end.y - start.y, end.x - start.x)

\* advanceAlongLane: thrown is "Lane not found" or "Invalid lane" or "" when it
\* returns {position, heading, reachedEnd}.
AdvanceAlongLane(lanes, entity, distanceToTravel) ==
    LET lane == GetLane(lanes, entity.currentLaneId)
        newProgress == NewProgress(entity.laneProgress, distanceToTravel, NavLaneLength(lane))
    IN  IF ~HasLane(lanes, entity.currentLaneId)
        THEN [thrown |-> "Lane not found", position |-> Pt(0, 0), heading |-> 0,
              reachedEnd |-> FALSE]
        ELSE IF Len(lane.points) = 0
        THEN [thrown |-> "Invalid lane", position |-> Pt(0, 0), heading |-> 0,
              reachedEnd |-> FALSE]
        ELSE [thrown |-> "",
              position |-> GetPositionAtProgress(lane, newProgress),
              heading |-> GetHeadingAtProgress(lane, newProgress),
              reachedEnd |-> newProgress.kind = "num" /\ newProgress.v >= Unit]

\* Infinity, as a distance no two points of the model are apart.
Infinity == 1000 * Unit * Unit

\* lane.points[0] of a lane without points (undefined).
NoPoint == [none |-> TRUE]

\* The parameter t of the point of a segment nearest to a position: the dot
\* product over segmentLength squared, between 0 and 1.  The quotient is taken
\* after scaling the divisor where the scaled product would leave the integer
\* range.
SegmentParameter(dot, squaredLength) ==
    IF dot <= 0 THEN 0
    ELSE IF dot >= squaredLength THEN Unit
    ELSE IF squaredLength < Unit THEN TruncDiv(dot * Unit, squaredLength)
    ELSE Min(Unit, TruncDiv(dot, squaredLength \div Unit))

\* The loop of nearestPointOnSpecificLane from segment i on (the program's
\* i + 1), with the best point so far.
RECURSIVE NearestOnSegments(_, _, _, _)
NearestOnSegments(position, lane, i, best) ==
    IF i > Len(lane.points) - 1 THEN best
    ELSE LET segmentStart == lane.points[i]
             segmentEnd == lane.points[i + 1]
             segmentLength == Distance(segmentStart, segmentEnd)
             t == SegmentParameter(
                     (position.x - segmentStart.x) * (segmentEnd.x - segmentStart.x)
                       + (position.y - segmentStart.y) * (segmentEnd.y - segmentStart.y),
                     segmentLength * segmentLength)
             closestPoint ==
                 Pt(segmentStart.x + TruncDiv(t * (segmentEnd.x - segmentStart.x), Unit),
                    segmentStart.y + TruncDiv(t * (segmentEnd.y - segmentStart.y), Unit))
             distance == Distance(position, closestPoint)
         IN  IF segmentLength = 0
             THEN NearestOnSegments(position, lane, i + 1, best)
             ELSE IF distance < best.distance
             THEN NearestOnSegments(position, lane, i + 1,
                     [ point |-> closestPoint,
                       progress |-> TruncDiv((i - 1) * Unit + t, Len(lane.points) - 1),
                       distance |-> distance ])
             ELSE NearestOnSegments(position, lane, i + 1, best)

\* nearestPointOnSpecificLane.
NearestPointOnSpecificLane(position, lane) ==
    NearestOnSegments(position, lane, 1,
        [ point |-> IF Len(lane.points) = 0 THEN NoPoint ELSE lane.points[1],
          progress |-> 0, distance |-> Infinity ])

\* nearestPointOnLane's result null.
NoResult == [none |-> TRUE]

\* The loop of nearestPointOnLane over the lanes from index i on.
RECURSIVE NearestFrom(_, _, _, _)
NearestFrom(lanes, position, i, bestResult) ==
    IF i > Len(lanes) THEN bestResult
    ELSE LET result == NearestPointOnSpecificLane(position, lanes[i])
         IN  IF bestResult = NoResult \/ result.distance < bestResult.distance
             THEN NearestFrom(lanes, position, i + 1,
                     [ laneId |-> lanes[i].id, point |-> result.point,
                       progress |-> result.progress, distance |-> result.distance ])
             ELSE NearestFrom(lanes, position, i + 1, bestResult)

\* nearestPointOnLane(position).
NearestPointOnLane(lanes, position) == NearestFrom(lanes, position, 1, NoResult)

\* findReturnLane: the first entry of laneConnections, in insertion order, that
\* lists currentLaneId; NoLane for null.
RECURSIVE FindReturnFrom(_, _, _, _)
FindReturnFrom(lanes, conns, currentLaneId, i) ==
    IF i > Len(lanes) THEN NoLane
    ELSE IF /\ lanes[i].id \in DOMAIN conns
            /\ currentLaneId \in SeqToSet(conns[lanes[i].id])
            /\ lanes[i].id # currentLaneId
         THEN lanes[i].id
         ELSE FindReturnFrom(lanes, conns, currentLaneId, i + 1)

\* findReturnLane without the search: always null.
FindReturnLane_Null(lanes, conns, currentLaneId) == NoLane

FindReturnLane(lanes, conns, currentLaneId) == FindReturnFrom(lanes, conns, currentLaneId, 1)

\* chooseNextLane without the planned-route preference.
ChooseNextLane_IgnoreRoute(lanes, conns, currentLaneId, route, routeIndex) ==
    LET connections == ConnectionsGet(conns, currentLaneId)
    IN  IF Len(connections) = 0
        THEN { FindReturnLane(lanes, conns, currentLaneId) }
        ELSE SeqToSet(connections)

\* chooseNextLane: the set of lane ids it can return (the random choice is any
\* connection); NoLane for null.  routeIndex counts from 0 as in the program.
ChooseNextLane(lanes, conns, currentLaneId, route, routeIndex) ==
    LET connections == ConnectionsGet(conns, currentLaneId)
        plannedNext == route[routeIndex + 2]
    IN  IF Len(connections) = 0
        THEN { FindReturnLane(lanes, conns, currentLaneId) }
        ELSE IF /\ Len(route) > routeIndex + 1
                /\ plannedNext # NoLane
                /\ plannedNext \in SeqToSet(connections)
        THEN { plannedNext }
        ELSE SeqToSet(connections)

\* The loop of generateRandomRoute with `hops` iterations left: the set of routes
\* it can end with.
RECURSIVE RouteWalk(_, _, _)
RouteWalk(conns, route, hops) ==
    LET currentLane == route[Len(route)]
        connections == ConnectionsGet(conns, currentLane)
        validConnections ==
            { c \in SeqToSet(connections) : Len(route) < 2 \/ c # route[Len(route) - 1] }
        candidates == IF validConnections # {} THEN validConnections
                      ELSE SeqToSet(connections)
    IN  IF hops <= 0 \/ Len(connections) = 0 THEN { route }
        ELSE UNION { RouteWalk(conns, Append(route, nextLane), hops - 1) :
                        nextLane \in candidates }

\* The loop of generateRandomRoute without the validConnections filter.
RECURSIVE RouteWalk_AnyConnection(_, _, _)
RouteWalk_AnyConnection(conns, route, hops) ==
    LET connections == ConnectionsGet(conns, route[Len(route)])
    IN  IF hops <= 0 \/ Len(connections) = 0 THEN { route }
        ELSE UNION { RouteWalk_AnyConnection(conns, Append(route, nextLane), hops - 1) :
                        nextLane \in SeqToSet(connections) }

\* generateRandomRoute that may turn back at any hop.
GenerateRandomRoute_Backtrack(conns, startLaneId, length) ==
    RouteWalk_AnyConnection(conns, << startLaneId >>, length - 1)

\* generateRandomRoute whose loop runs `length` times.
GenerateRandomRoute_ExtraHop(conns, startLaneId, length) ==
    RouteWalk(conns, << startLaneId >>, length)

\* generateRandomRoute(startLaneId, length): the routes it can return.
GenerateRandomRoute(conns, startLaneId, length) ==
    RouteWalk(conns, << startLaneId >>, length - 1)

-----------------------------------------------------------------------------
(***************************************************************************)
(* WarehouseSimulator: configuration and entities                          *)
(***************************************************************************)

\* The SimulatorConfig the service passes to the simulator (index.ts).  Speeds
\* and lengths in thousandths; simSpeed 1.0 is Unit.
ServiceConfig ==
    [ forkliftCount |-> 2, palletCount |-> 4, workerCount |-> 3,
      forkliftSpeedRange |-> << 800, 2200 >>,
      palletSpeedRange |-> << 500, 1800 >>,
      workerSpeedRange |-> << 300, 1500 >>,
      tickMs |-> 100, simSpeed |-> Unit, eventProbability |-> 1,
      collisionRadius |-> 1500, congestionThreshold |-> 3 ]

\* An entity id: "forklift-1" is << "forklift", 1 >>.
EntityId(type, n) == << type, n >>

\* entity.targetPosition === undefined
NoTarget == [none |-> TRUE]

\* Math.random() as thousandths, 0..999; randomSpeed(range).
RandomSpeed(range, r) == range[1] + TruncDiv(r * (range[2] - range[1]), Unit)

SpeedRangeOf(cfg, type) ==
    IF type = "forklift" THEN cfg.forkliftSpeedRange
    ELSE IF type = "worker" THEN cfg.workerSpeedRange
    ELSE cfg.palletSpeedRange

\* getZoneFromPosition: the column letter by y band, the digit by x band.
ZoneColumn(x) ==
    IF x >= 6400 /\ x < 14400 THEN "1"
    ELSE IF x >= 14400 /\ x < 22400 THEN "2"
    ELSE IF x >= 22400 /\ x < 30400 THEN "3"
    ELSE IF x >= 30400 /\ x < 38400 THEN "4"
    ELSE IF x >= 38400 /\ x < 46400 THEN "5"
    ELSE IF x >= 46400 THEN "6"
    ELSE ""

GetZoneFromPosition(x, y) ==
    LET band == IF y < 8800 THEN "A"
                ELSE IF y >= 13600 /\ y < 20800 THEN "B"
                ELSE IF y >= 20800 THEN "P"
                ELSE ""
    IN  IF band = "" \/ ZoneColumn(x) = "" THEN "main-aisle"
        ELSE band \o ZoneColumn(x)

\* gridStartPositions of initializeEntities.
gridStartPositions ==
    << Pt(12500, 11200), Pt(18900, 11200), Pt(25300, 11200), Pt(31700, 11200),
       Pt(38100, 11200), Pt(12500, 8600), Pt(25300, 13800), Pt(31700, 9400),
       Pt(18900, 14200) >>

\* A forklift created with the zone of its start position as its lane id.
NewForklift_ZoneAsLane(cfg, i, n, t0, r) ==
    LET startingPoint == gridStartPositions[(i % Len(gridStartPositions)) + 1]
        speed == RandomSpeed(cfg.forkliftSpeedRange, r)
    IN  [ id |-> EntityId("forklift", n), type |-> "forklift",
          x |-> startingPoint.x, y |-> startingPoint.y,
          speed |-> speed, heading |-> 0, targetSpeed |-> speed,
          currentLaneId |-> GetZoneFromPosition(startingPoint.x, startingPoint.y),
          laneProgress |-> 0, route |-> << >>, routeIndex |-> 0,
          lastEventTime |-> t0 - i * 2000,
          zoneId |-> GetZoneFromPosition(startingPoint.x, startingPoint.y),
          targetPosition |-> NoTarget ]

\* The forklift created by iteration i (from 0) of the first loop, with the
\* entity counter at n, at construction time t0; r is the speed's random draw.
NewForklift(cfg, i, n, t0, r) ==
    LET startingPoint == gridStartPositions[(i % Len(gridStartPositions)) + 1]
        speed == RandomSpeed(cfg.forkliftSpeedRange, r)
        onHorizontal == Abs(startingPoint.y - 11200) < 100
    IN  [ id |-> EntityId("forklift", n), type |-> "forklift",
          x |-> startingPoint.x, y |-> startingPoint.y,
          speed |-> speed,
          heading |-> IF onHorizontal THEN (IF i % 2 = 0 THEN 0 ELSE 180 * Unit)
                      ELSE (IF i % 2 = 0 THEN 90 * Unit ELSE 270 * Unit),
          targetSpeed |-> speed,
          currentLaneId |-> "grid", laneProgress |-> 0,
          route |-> << >>, routeIndex |-> 0,
          lastEventTime |-> t0 - i * 2000,
          zoneId |-> GetZoneFromPosition(startingPoint.x, startingPoint.y),
          targetPosition |-> NoTarget ]

\* lane.points[0]?.x || 0 and lane.points[0]?.y || 0
FirstPointOrZero(lane) == IF Len(lane.points) > 0 THEN lane.points[1] ELSE Pt(0, 0)

\* A pallet or worker created on `lane`; the draws: rs and rt for the two speeds,
\* rp for the progress (times 0.5 for a pallet, 0.3 for a worker), and the route.
NewLaneEntity(cfg, type, n, t0, lane, rs, rt, rp, route) ==
    LET p == FirstPointOrZero(lane)
    IN  [ id |-> EntityId(type, n), type |-> type,
          x |-> p.x, y |-> p.y,
          speed |-> RandomSpeed(SpeedRangeOf(cfg, type), rs),
          heading |-> 0,
          targetSpeed |-> RandomSpeed(SpeedRangeOf(cfg, type), rt),
          currentLaneId |-> lane.id,
          laneProgress |-> TruncDiv(rp * (IF type = "pallet" THEN 500 ELSE 300), Unit),
          route |-> route, routeIndex |-> 0,
          lastEventTime |-> t0,
          zoneId |-> GetZoneFromPosition(p.x, p.y),
          targetPosition |-> NoTarget ]

-----------------------------------------------------------------------------
(***************************************************************************)
(* Grid motion (forklifts)                                                 *)
(***************************************************************************)

\* lerp(a, b, t) with t in thousandths.
Lerp(a, b, t) == a + TruncDiv((b - a) * t, Unit)

\* lerpAngle(a, b, t), degrees in thousandths.
LerpAngle(a, b, t) ==
    LET d0 == b - a
        d1 == IF d0 > 180 * Unit THEN d0 - 360 * Unit ELSE d0
        d2 == IF d1 < -180 * Unit THEN d1 + 360 * Unit ELSE d1
    IN  a + TruncDiv(d2 * t, Unit)

\* deltaTime = (tickMs / 1000) * simSpeed, in thousandths of a second.
DeltaTime(cfg) == TruncDiv(cfg.tickMs * cfg.simSpeed, 1000)

\* speed * deltaTime
DistancePerTick(cfg, speed) == TruncDiv(speed * DeltaTime(cfg), Unit)

HLine(y, xStart, xEnd) == [type |-> "horizontal", c |-> y, from |-> xStart, to |-> xEnd]

VLine(x, yStart, yEnd) == [type |-> "vertical", c |-> x, from |-> yStart, to |-> yEnd]

\* pathLines of updateForkliftGridMovement: c is the line's fixed coordinate.
pathLines ==
    << HLine(11200, 4000, 44000),
       VLine(4000, 3200, 19200), VLine(12500, 3200, 19200), VLine(18900, 3200, 19200),
       VLine(25300, 3200, 19200), VLine(31700, 3200, 19200), VLine(38100, 3200, 19200),
       VLine(44000, 3200, 19200) >>

\* The coordinate across the line and the coordinate along it.
Across(line, x, y) == IF line.type = "horizontal" THEN y ELSE x

Along(line, x, y) == IF line.type = "horizontal" THEN x ELSE y

OnLine(line, x, y, tolerance, slack) ==
    /\ Abs(Across(line, x, y) - line.c) < tolerance
    /\ Along(line, x, y) >= line.from - slack
    /\ Along(line, x, y) <= line.to + slack

\* isOnStrictPath: tolerance 0.1.
IsOnStrictPath(x, y) == \E i \in 1..Len(pathLines) : OnLine(pathLines[i], x, y, 100, 0)

\* The candidate of one line in snapToNearestPath: the clamped point and its
\* (Manhattan) distance.
SnapCandidate(line, x, y) ==
    LET clamped == Max(line.from, Min(line.to, Along(line, x, y)))
    IN  [ point |-> IF line.type = "horizontal" THEN Pt(clamped, line.c)
                    ELSE Pt(line.c, clamped),
          distance |-> Abs(Across(line, x, y) - line.c) + Abs(Along(line, x, y) - clamped) ]

\* snapToNearestPath: the first line of least distance wins (strict <).
SnapToNearestPath(x, y) ==
    LET best == CHOOSE i \in 1..Len(pathLines) :
                    /\ \A j \in 1..Len(pathLines) :
                          SnapCandidate(pathLines[i], x, y).distance
                            <= SnapCandidate(pathLines[j], x, y).distance
                    /\ \A j \in 1..(i - 1) :
                          SnapCandidate(pathLines[j], x, y).distance
                            > SnapCandidate(pathLines[i], x, y).distance
    IN  SnapCandidate(pathLines[best], x, y).point

\* getCurrentPathLine with the last line within tolerance in place of the first.
GetCurrentPathLine_LastMatch(x, y) ==
    IF \E i \in 1..Len(pathLines) : OnLine(pathLines[i], x, y, 200, 200)
    THEN CHOOSE i \in 1..Len(pathLines) :
            /\ OnLine(pathLines[i], x, y, 200, 200)
            /\ \A j \in (i + 1)..Len(pathLines) : ~OnLine(pathLines[j], x, y, 200, 200)
    ELSE 0

\* getCurrentPathLine: the index of the first line within tolerance 0.2; 0 for null.
GetCurrentPathLine(x, y) ==
    IF \E i \in 1..Len(pathLines) : OnLine(pathLines[i], x, y, 200, 200)
    THEN CHOOSE i \in 1..Len(pathLines) :
            /\ OnLine(pathLines[i], x, y, 200, 200)
            /\ \A j \in 1..(i - 1) : ~OnLine(pathLines[j], x, y, 200, 200)
    ELSE 0

\* setPathLineTarget without the clamp to the line's extent.
SetPathLineTarget_Unclamped(entity, dir, r) ==
    LET k == GetCurrentPathLine(entity.x, entity.y)
        line == pathLines[k]
        reach == IF line.type = "horizontal"
                 THEN 5 * Unit + TruncDiv(r * 10 * Unit, Unit)
                 ELSE 3 * Unit + TruncDiv(r * 6 * Unit, Unit)
        wanted == Along(line, entity.x, entity.y) + dir * reach
    IN  IF k = 0 THEN entity.targetPosition
        ELSE IF line.type = "horizontal" THEN Pt(wanted, line.c)
        ELSE Pt(line.c, wanted)

\* setPathLineTarget: the target it sets for direction dir (1 or -1) and random
\* draw r; the entity's own target when no line is found.
SetPathLineTarget(entity, dir, r) ==
    LET k == GetCurrentPathLine(entity.x, entity.y)
        line == pathLines[k]
        reach == IF line.type = "horizontal"
                 THEN 5 * Unit + TruncDiv(r * 10 * Unit, Unit)
                 ELSE 3 * Unit + TruncDiv(r * 6 * Unit, Unit)
        wanted == Along(line, entity.x, entity.y) + dir * reach
        clamped == Max(line.from, Min(line.to, wanted))
    IN  IF k = 0 THEN entity.targetPosition
        ELSE IF line.type = "horizontal" THEN Pt(clamped, line.c)
        ELSE Pt(line.c, clamped)

\* hasReachedTarget: distance below 0.5, compared on the squares.
HasReachedTarget(entity, target) == Closer(Pt(entity.x, entity.y), target, 500)

\* The movement step with the target speed drawn anew at the top of the range.
MoveOnGrid_Retargets(cfg, entity, target, speedVariation) ==
    [ entity EXCEPT !.targetPosition = target,
                    !.targetSpeed = cfg.forkliftSpeedRange[2] ]

\* The part of updateForkliftGridMovement after the target is known: move toward
\* it, turn, re-snap, and smooth the speed toward targetSpeed + speedVariation.
MoveOnGrid(cfg, entity, target, speedVariation) ==
    LET distance == DistancePerTick(cfg, entity.speed)
        dx == target.x - entity.x
        dy == target.y - entity.y
        distanceToTarget == Isqrt(dx * dx + dy * dy)
        moves == target # NoTarget /\ distanceToTarget > 50
        movedX == entity.x + TruncDiv(dx * distance, distanceToTarget)
        movedY == entity.y + TruncDiv(dy * distance, distanceToTarget)
        snapped == SnapToNearestPath(movedX, movedY)
    IN  [ entity EXCEPT
            !.targetPosition = target,
            !.x = IF moves THEN snapped.x ELSE @,
            !.y = IF moves THEN snapped.y ELSE @,
            !.heading = IF moves THEN LerpAngle(@, Atan2Deg(dy, dx), 100) ELSE @,
            !.speed = Lerp(@, entity.targetSpeed + speedVariation, 20) ]

\* updateForkliftGridMovement that gives an off-path forklift a target
\* without snapping it to a line.
UpdateForkliftGridMovement_NoSnap(cfg, entity, dirs, rands, variations) ==
    LET newTarget == entity.targetPosition = NoTarget
                        \/ HasReachedTarget(entity, entity.targetPosition)
    IN  IF ~IsOnStrictPath(entity.x, entity.y)
        THEN { [entity EXCEPT !.targetPosition = SetPathLineTarget(entity, d, r)] :
                  d \in dirs, r \in rands }
        ELSE IF newTarget
        THEN { MoveOnGrid(cfg, entity, SetPathLineTarget(entity, d, r), v) :
                  d \in dirs, r \in rands, v \in variations }
        ELSE { MoveOnGrid(cfg, entity, entity.targetPosition, v) : v \in variations }

\* updateForkliftGridMovement: the entities it can leave, over the draws of the
\* target choice (dirs, rands) and of the sine term (variations).
UpdateForkliftGridMovement(cfg, entity, dirs, rands, variations) ==
    LET snap == SnapToNearestPath(entity.x, entity.y)
        onPath == [entity EXCEPT !.x = snap.x, !.y = snap.y]
        newTarget == entity.targetPosition = NoTarget
                        \/ HasReachedTarget(entity, entity.targetPosition)
    IN  IF ~IsOnStrictPath(entity.x, entity.y)
        THEN { [onPath EXCEPT !.targetPosition = SetPathLineTarget(onPath, d, r)] :
                  d \in dirs, r \in rands }
        ELSE IF newTarget
        THEN { MoveOnGrid(cfg, entity, SetPathLineTarget(entity, d, r), v) :
                  d \in dirs, r \in rands, v \in variations }
        ELSE { MoveOnGrid(cfg, entity, entity.targetPosition, v) : v \in variations }

-----------------------------------------------------------------------------
(***************************************************************************)
(* Lane motion (pallets, workers)                                          *)
(*                                                                         *)
(* env holds the draws the model takes for the program's random numbers:   *)
(* each field is the set of values one Math.random() call (thousandths,    *)
(* 0..999) or one environment input ranges over.                           *)
(***************************************************************************)

\* WarehouseSimulator.calculateLaneLength: Math.max(length, 1).
SimLaneLength(lane) == Max(SegmentSum(lane.points, 1), Unit)

\* transitionToNextLane with the route cursor advanced without the test
\* against route.length.
TransitionToNextLane_NoBound(cfg, env, lanes, conns, entity) ==
    LET routeIndex == entity.routeIndex + 1
        planned == IF routeIndex < Len(entity.route)
                   THEN entity.route[routeIndex + 1] ELSE NoLane
        chosen == IF planned = NoLane \/ ~HasLane(lanes, planned)
                  THEN ChooseNextLane(lanes, conns, entity.currentLaneId,
                                      entity.route, routeIndex)
                  ELSE { planned }
        Moved(nextLaneId) ==
            IF nextLaneId # NoLane
            THEN { [ entity |-> [entity EXCEPT !.routeIndex = routeIndex,
                                               !.currentLaneId = nextLaneId,
                                               !.laneProgress = 0],
                     newRoute |-> FALSE ] }
            ELSE { [ entity |-> [entity EXCEPT
                                   !.route = route,
                                   !.routeIndex = 0,
                                   !.currentLaneId = IF Len(route) >= 2 THEN route[2]
                                                     ELSE entity.currentLaneId,
                                   !.laneProgress = 0],
                     newRoute |-> TRUE ] :
                     route \in GenerateRandomRoute(conns, entity.currentLaneId, 5) }
        Retarget(m) ==
            { IF g < 300
              THEN [m EXCEPT !.entity.targetSpeed =
                               RandomSpeed(SpeedRangeOf(cfg, entity.type), r)]
              ELSE m : g \in env.gateDraws, r \in env.speedDraws }
    IN  UNION { UNION { Retarget(m) : m \in Moved(next) } : next \in chosen }

\* transitionToNextLane that goes to the first lane of the network when no
\* next lane is found.
TransitionToNextLane_FirstLane(cfg, env, lanes, conns, entity) ==
    LET follows == entity.routeIndex < Len(entity.route) - 1
        routeIndex == IF follows THEN entity.routeIndex + 1 ELSE entity.routeIndex
        planned == IF follows THEN entity.route[routeIndex + 1] ELSE NoLane
        chosen == IF planned = NoLane \/ ~HasLane(lanes, planned)
                  THEN ChooseNextLane(lanes, conns, entity.currentLaneId,
                                      entity.route, routeIndex)
                  ELSE { planned }
    IN  { [ entity |-> [entity EXCEPT
                          !.routeIndex = routeIndex,
                          !.currentLaneId = IF next # NoLane THEN next ELSE lanes[1].id,
                          !.laneProgress = 0],
            newRoute |-> FALSE ] : next \in chosen }

\* transitionToNextLane that keeps the old route when no next lane is found.
TransitionToNextLane_NoFreshRoute(cfg, env, lanes, conns, entity) ==
    LET follows == entity.routeIndex < Len(entity.route) - 1
        routeIndex == IF follows THEN entity.routeIndex + 1 ELSE entity.routeIndex
        planned == IF follows THEN entity.route[routeIndex + 1] ELSE NoLane
        chosen == IF planned = NoLane \/ ~HasLane(lanes, planned)
                  THEN ChooseNextLane(lanes, conns, entity.currentLaneId,
                                      entity.route, routeIndex)
                  ELSE { planned }
    IN  { [ entity |-> [entity EXCEPT
                          !.routeIndex = routeIndex,
                          !.currentLaneId = IF next # NoLane THEN next ELSE @,
                          !.laneProgress = 0],
            newRoute |-> FALSE ] : next \in chosen }

\* transitionToNextLane: the set of [entity, newRoute] it can leave; newRoute
\* tells that generateRandomRoute replaced the route.
TransitionToNextLane(cfg, env, lanes, conns, entity) ==
    LET follows == entity.routeIndex < Len(entity.route) - 1
        routeIndex == IF follows THEN entity.routeIndex + 1 ELSE entity.routeIndex
        planned == IF follows THEN entity.route[routeIndex + 1] ELSE NoLane
        chosen == IF planned = NoLane \/ ~HasLane(lanes, planned)
                  THEN ChooseNextLane(lanes, conns, entity.currentLaneId,
                                      entity.route, routeIndex)
                  ELSE { planned }
        Moved(nextLaneId) ==
            IF nextLaneId # NoLane
            THEN { [ entity |-> [entity EXCEPT !.routeIndex = routeIndex,
                                               !.currentLaneId = nextLaneId,
                                               !.laneProgress = 0],
                     newRoute |-> FALSE ] }
            ELSE { [ entity |-> [entity EXCEPT
                                   !.route = route,
                                   !.routeIndex = 0,
                                   !.currentLaneId = IF Len(route) >= 2 THEN route[2]
                                                     ELSE entity.currentLaneId,
                                   !.laneProgress = 0],
                     newRoute |-> TRUE ] :
                     route \in GenerateRandomRoute(conns, entity.currentLaneId, 5) }
        \* if (Math.random() < 0.3) entity.targetSpeed = randomSpeed(speedRange)
        Retarget(m) ==
            { IF g < 300
              THEN [m EXCEPT !.entity.targetSpeed =
                               RandomSpeed(SpeedRangeOf(cfg, entity.type), r)]
              ELSE m : g \in env.gateDraws, r \in env.speedDraws }
    IN  UNION { UNION { Retarget(m) : m \in Moved(next) } : next \in chosen }

\* What one entity's update leaves: the entity and what happened.  thrown is
\* the exception's message or ""; advanced is laneProgress right after the
\* increment (before a transition resets it).
Outcome(entity, thrown, transitioned, newRoute, reachedEnd, advanced) ==
    [ entity |-> entity, thrown |-> thrown, transitioned |-> transitioned,
      newRoute |-> newRoute, reachedEnd |-> reachedEnd, advanced |-> advanced ]

\* (Math.random() - 0.5) * 0.2 for the draw r.
Jitter(r) == TruncDiv((r - 500) * 200, Unit)

\* entity.speed = lerp(entity.speed, entity.targetSpeed + jitter, 0.1)
VarySpeed(entity, r) ==
    [entity EXCEPT !.speed = Lerp(@, entity.targetSpeed + Jitter(r), 100)]

\* updateLaneBasedMovement: the outcomes of one call.
UpdateLaneBasedMovement(cfg, env, lanes, conns, entity) ==
    LET distanceToTravel == DistancePerTick(cfg, entity.speed)
        advancement == AdvanceAlongLane(lanes, entity, distanceToTravel)
        currentLane == GetLane(lanes, entity.currentLaneId)
        advanced == entity.laneProgress
                      + TruncDiv(distanceToTravel * Unit, SimLaneLength(currentLane))
        placed == [entity EXCEPT !.x = advancement.position.x,
                                 !.y = advancement.position.y,
                                 !.heading = advancement.heading,
                                 !.laneProgress = advanced]
        transitions == advancement.reachedEnd \/ advanced >= Unit
    IN  IF entity.currentLaneId = NoLane
        THEN { Outcome(entity, "", FALSE, FALSE, FALSE, entity.laneProgress) }
        ELSE IF advancement.thrown # ""
        THEN { Outcome(entity, advancement.thrown, FALSE, FALSE, FALSE,
                       entity.laneProgress) }
        ELSE IF transitions
        THEN { Outcome(VarySpeed(m.entity, r), "", TRUE, m.newRoute,
                       advancement.reachedEnd, advanced) :
                  m \in TransitionToNextLane(cfg, env, lanes, conns, placed),
                  r \in env.jitterDraws }
        ELSE { Outcome(VarySpeed(placed, r), "", FALSE, FALSE, FALSE, advanced) :
                  r \in env.jitterDraws }

\* gridPositions of resetEntityToValidLane.
resetGridPositions ==
    << Pt(15200, 11200), Pt(21600, 11200), Pt(28000, 11200), Pt(34400, 11200) >>

\* resetEntityToValidLane: the entities it can leave.
ResetEntityToValidLane(lanes, conns, entity) ==
    IF entity.type = "forklift"
    THEN { [entity EXCEPT !.x = resetGridPositions[k].x,
                          !.y = resetGridPositions[k].y,
                          !.targetPosition = NoTarget,
                          !.speed = entity.targetSpeed] :
              k \in 1..Len(resetGridPositions) }
    ELSE IF Len(lanes) = 0 THEN { entity }
    ELSE UNION {
            IF Len(lanes[k].points) = 0 THEN { entity }
            ELSE { [entity EXCEPT !.currentLaneId = lanes[k].id,
                                  !.x = lanes[k].points[1].x,
                                  !.y = lanes[k].points[1].y,
                                  !.laneProgress = 0,
                                  !.route = route,
                                  !.routeIndex = 0] :
                      route \in GenerateRandomRoute(conns, lanes[k].id, 5) } :
            k \in 1..Len(lanes) }

\* The zone update that ends the try block of updateEntity.
WithZone(entity) == [entity EXCEPT !.zoneId = GetZoneFromPosition(entity.x, entity.y)]

\* updateEntity: the outcomes of one call.  An exception of the motion model
\* is caught here and the entity is reset.
UpdateEntity(cfg, env, lanes, conns, entity) ==
    IF entity.type = "forklift"
    THEN { Outcome(WithZone(e), "", FALSE, FALSE, FALSE, e.laneProgress) :
              e \in UpdateForkliftGridMovement(cfg, entity, env.dirDraws,
                                               env.reachDraws, env.variationDraws) }
    ELSE UNION {
            IF o.thrown = "" THEN { [o EXCEPT !.entity = WithZone(o.entity)] }
            ELSE { [o EXCEPT !.entity = e] :
                      e \in ResetEntityToValidLane(lanes, conns, entity) } :
            o \in UpdateLaneBasedMovement(cfg, env, lanes, conns, entity) }

-----------------------------------------------------------------------------
(***************************************************************************)
(* Event detectors                                                         *)
(***************************************************************************)

NoEvent == [none |-> TRUE]

RandomEventTypes == { "blocked", "dwellExceeded", "zoneBreach" }

\* generateRandomEvent without the cooldown test.
GenerateRandomEvent_NoCooldown(env, entity, now) ==
    { [ entity |-> [entity EXCEPT !.lastEventTime = now],
        event |-> [ t |-> now, type |-> eventType, assetIds |-> << entity.id >>,
                    zoneId |-> entity.zoneId,
                    payload |-> [reason |-> reason, severity |-> severity] ] ] :
         eventType \in RandomEventTypes, reason \in env.reasonDraws,
         severity \in env.severityDraws }

\* generateRandomEvent that also stops the entity it reports.
GenerateRandomEvent_Stops(env, entity, now) ==
    IF now - entity.lastEventTime < 30000
    THEN { [entity |-> entity, event |-> NoEvent] }
    ELSE { [ entity |-> [entity EXCEPT !.lastEventTime = now, !.speed = 0],
             event |-> [ t |-> now, type |-> eventType, assetIds |-> << entity.id >>,
                         zoneId |-> entity.zoneId,
                         payload |-> [reason |-> reason, severity |-> severity] ] ] :
              eventType \in RandomEventTypes, reason \in env.reasonDraws,
              severity \in env.severityDraws }

\* generateRandomEvent at time `now`: the set of [entity, event] it can leave;
\* event is NoEvent for null.
GenerateRandomEvent(env, entity, now) ==
    IF now - entity.lastEventTime < 30000
    THEN { [entity |-> entity, event |-> NoEvent] }
    ELSE { [ entity |-> [entity EXCEPT !.lastEventTime = now],
             event |-> [ t |-> now, type |-> eventType, assetIds |-> << entity.id >>,
                         zoneId |-> entity.zoneId,
                         payload |-> [reason |-> reason, severity |-> severity] ] ] :
              eventType \in RandomEventTypes, reason \in env.reasonDraws,
              severity \in env.severityDraws }

\* One iteration of the loop of the tick body: update the entity, push its
\* position record, and with probability eventProbability generate an event.
EntityStep(cfg, env, lanes, conns, entity, now) ==
    UNION { UNION {
        { [ o EXCEPT !.entity = ge.entity ]
            @@ [ position |-> [ id |-> o.entity.id, type |-> o.entity.type,
                                x |-> o.entity.x, y |-> o.entity.y,
                                speed |-> o.entity.speed, heading |-> o.entity.heading,
                                zoneId |-> o.entity.zoneId,
                                confidence |-> 900 + TruncDiv(c * 100, Unit), t |-> now ],
                 moved |-> o.entity,
                 event |-> ge.event ] :
            ge \in IF g < cfg.eventProbability
                   THEN GenerateRandomEvent(env, o.entity, now)
                   ELSE { [entity |-> o.entity, event |-> NoEvent] },
            c \in env.confidenceDraws } :
        g \in env.gateDraws } :
        o \in UpdateEntity(cfg, env, lanes, conns, entity) }

\* The loop without the try/catch of updateEntity: the first failing update
\* ends it.
RECURSIVE EntitySteps_Abort(_, _, _, _, _, _, _)
EntitySteps_Abort(cfg, env, lanes, conns, ents, now, i) ==
    IF i > Len(ents) THEN { << >> }
    ELSE UNION {
            IF first.thrown # "" THEN { << >> }
            ELSE { << first >> \o rest :
                      rest \in EntitySteps_Abort(cfg, env, lanes, conns, ents, now, i + 1) } :
            first \in EntityStep(cfg, env, lanes, conns, ents[i], now) }

\* The loop over all entities, from index i on: the sequences of steps it can take.
RECURSIVE EntitySteps(_, _, _, _, _, _, _)
EntitySteps(cfg, env, lanes, conns, ents, now, i) ==
    IF i > Len(ents) THEN { << >> }
    ELSE { << first >> \o rest :
              first \in EntityStep(cfg, env, lanes, conns, ents[i], now),
              rest \in EntitySteps(cfg, env, lanes, conns, ents, now, i + 1) }

\* The pairs (i, j), i < j, in the order of the two nested loops.
RECURSIVE PairsFrom(_, _, _)
PairsFrom(i, j, n) ==
    IF i >= n THEN << >>
    ELSE IF j > n THEN PairsFrom(i + 1, i + 2, n)
    ELSE << << i, j >> >> \o PairsFrom(i, j + 1, n)

\* The near-collision test of a pair: distance below collisionRadius and one of
\* the two faster than 0.1.
NearCollision(cfg, e1, e2) ==
    /\ Closer(Pt(e1.x, e1.y), Pt(e2.x, e2.y), cfg.collisionRadius)
    /\ (e1.speed > 100 \/ e2.speed > 100)

\* targetSpeed *= 0.5, k times.
RECURSIVE Halved(_, _)
Halved(targetSpeed, k) ==
    IF k = 0 THEN targetSpeed ELSE Halved(TruncDiv(targetSpeed, 2), k - 1)

\* The distinct lane ids of the entities, in order of first occupant.
RECURSIVE LaneOrder(_, _, _)
LaneOrder(ents, i, seen) ==
    IF i > Len(ents) THEN << >>
    ELSE IF ents[i].currentLaneId = NoLane \/ ents[i].currentLaneId \in seen
    THEN LaneOrder(ents, i + 1, seen)
    ELSE << ents[i].currentLaneId >>
         \o LaneOrder(ents, i + 1, seen \cup { ents[i].currentLaneId })

\* The ids of the entities whose current lane is laneId, in entity order.
RECURSIVE Occupants(_, _, _)
Occupants(ents, laneId, i) ==
    IF i > Len(ents) THEN << >>
    ELSE (IF ents[i].currentLaneId = laneId THEN << ents[i].id >> ELSE << >>)
         \o Occupants(ents, laneId, i + 1)

\* The congestion test with > in place of >=.
IsCongested_Above(cfg, entityIds) == Len(entityIds) > cfg.congestionThreshold

\* entityIds.length >= this.config.congestionThreshold
IsCongested(cfg, entityIds) == Len(entityIds) >= cfg.congestionThreshold

\* checkProximityEvents with the penalty on the first entity of a pair only.
CheckProximityEvents_FirstOnly(cfg, ents, now) ==
    LET n == Len(ents)
        Hit(p) == NearCollision(cfg, ents[p[1]], ents[p[2]])
        hits == SelectSeq(PairsFrom(1, 2, n), Hit)
        HitsOf(i) == Cardinality({ k \in 1..Len(hits) : hits[k][1] = i })
        CollisionEvent(p) ==
            LET e1 == ents[p[1]]
                e2 == ents[p[2]]
                d == Distance(Pt(e1.x, e1.y), Pt(e2.x, e2.y))
            IN  [ t |-> now, type |-> "nearCollision", assetIds |-> << e1.id, e2.id >>,
                  zoneId |-> e1.zoneId,
                  payload |-> [ distance |-> ((d + 5) \div 10) * 10,
                                closingSpeed |-> Abs(e1.speed - e2.speed) ] ]
        order == LaneOrder(ents, 1, {})
        Congested(laneId) == IsCongested(cfg, Occupants(ents, laneId, 1))
        CongestionEvent(laneId) ==
            [ t |-> now, type |-> "congestion", assetIds |-> Occupants(ents, laneId, 1),
              zoneId |-> laneId,
              payload |-> [ occupancy |-> Len(Occupants(ents, laneId, 1)),
                            threshold |-> cfg.congestionThreshold ] ]
        congested == SelectSeq(order, Congested)
    IN  [ entities |-> [ i \in 1..n |->
                           [ents[i] EXCEPT !.targetSpeed = Halved(@, HitsOf(i))] ],
          events |-> [ k \in 1..Len(hits) |-> CollisionEvent(hits[k]) ]
                     \o [ k \in 1..Len(congested) |-> CongestionEvent(congested[k]) ] ]

\* checkProximityEvents: the entities after the penalties and the events, the
\* near collisions first and then the congested lanes.
CheckProximityEvents(cfg, ents, now) ==
    LET n == Len(ents)
        Hit(p) == NearCollision(cfg, ents[p[1]], ents[p[2]])
        hits == SelectSeq(PairsFrom(1, 2, n), Hit)
        HitsOf(i) == Cardinality({ k \in 1..Len(hits) : hits[k][1] = i \/ hits[k][2] = i })
        CollisionEvent(p) ==
            LET e1 == ents[p[1]]
                e2 == ents[p[2]]
                d == Distance(Pt(e1.x, e1.y), Pt(e2.x, e2.y))
            IN  [ t |-> now, type |-> "nearCollision", assetIds |-> << e1.id, e2.id >>,
                  zoneId |-> e1.zoneId,
                  payload |-> [ distance |-> ((d + 5) \div 10) * 10,
                                closingSpeed |-> Abs(e1.speed - e2.speed) ] ]
        order == LaneOrder(ents, 1, {})
        Congested(laneId) == IsCongested(cfg, Occupants(ents, laneId, 1))
        CongestionEvent(laneId) ==
            [ t |-> now, type |-> "congestion", assetIds |-> Occupants(ents, laneId, 1),
              zoneId |-> laneId,
              payload |-> [ occupancy |-> Len(Occupants(ents, laneId, 1)),
                            threshold |-> cfg.congestionThreshold ] ]
        congested == SelectSeq(order, Congested)
    IN  [ entities |-> [ i \in 1..n |->
                           [ents[i] EXCEPT !.targetSpeed = Halved(@, HitsOf(i))] ],
          events |-> [ k \in 1..Len(hits) |-> CollisionEvent(hits[k]) ]
                     \o [ k \in 1..Len(congested) |-> CongestionEvent(congested[k]) ] ]

-----------------------------------------------------------------------------
(***************************************************************************)
(* The state machine                                                       *)
(***************************************************************************)
VARIABLES
    config,          \* the SimulatorConfig given to the constructor
    env,             \* the draws of the model (see Lane motion)
    laneNetwork,     \* LaneNavigator.laneNetwork.lanes
    laneConnections, \* LaneNavigator.laneConnections
    entities,        \* WarehouseSimulator.entities, in insertion order
    running,         \* WarehouseSimulator.running
    intervalId,      \* WarehouseSimulator.intervalId, 0 for undefined
    timers,          \* the interval timers the runtime holds: [id, cb]
    startCalls,      \* the number of start() calls made; call k passes callbacks k
    ignoredCalls,    \* the start() calls that returned at once
    now,             \* Date.now()
    logCounter,      \* WarehouseSimulator.logCounter: the ticks run
    lastPositions,   \* the batch the last tick gave to onPositionUpdate
    lastEvents,      \* the events the last tick gave to onEvent, in order
    callbackLog,     \* the callback calls of the last tick, in order
    tickLog,         \* per entity, what its update did in the last tick
    emitted,         \* every random operational event emitted so far: [id, t]
    navResult,       \* the result of the last LaneNavigator query
    snapResult,      \* the result of the last snapToNearestPath / isOnValidPath call
    currentMode,     \* mqtt-iot-service: the operation mode
    telemetryBuffer, \* mqtt-iot-service: the position records taken from MQTT
    serviceLog       \* mqtt-iot-service: what the service handled last

vars == << config, env, laneNetwork, laneConnections, entities, running, intervalId,
           timers, startCalls, ignoredCalls, now, logCounter, lastPositions,
           lastEvents, callbackLog, tickLog, emitted, navResult, snapResult,
           currentMode, telemetryBuffer, serviceLog >>

simVars == << entities, now, logCounter, lastPositions, lastEvents, callbackLog,
              tickLog, emitted >>

timerVars == << running, intervalId, timers, startCalls, ignoredCalls >>

fixedVars == << config, env, laneNetwork, laneConnections, navResult, snapResult >>

serviceVars == << currentMode, telemetryBuffer, serviceLog >>

\* The lane entities the two later loops of initializeEntities can create, for
\* the list `types` of the entities still to create, the counter at n.
RECURSIVE NewLaneEntities(_, _, _, _, _, _, _)
NewLaneEntities(cfg, e, lanes, conns, t0, types, n) ==
    IF Len(types) = 0 \/ Len(lanes) = 0 THEN { << >> }
    ELSE UNION {
            { << NewLaneEntity(cfg, Head(types), n, t0, lanes[k], rs, rt, rp, route) >>
                \o rest :
                 rs \in e.initSpeedDraws, rt \in e.initSpeedDraws,
                 rp \in e.progressDraws,
                 route \in GenerateRandomRoute(conns, lanes[k].id,
                                               IF Head(types) = "pallet" THEN 3 ELSE 4),
                 rest \in NewLaneEntities(cfg, e, lanes, conns, t0, Tail(types), n + 1) } :
            k \in e.initLanes \cap (1..Len(lanes)) }

RECURSIVE NewForklifts(_, _, _, _)
NewForklifts(cfg, e, t0, i) ==
    IF i >= cfg.forkliftCount THEN { << >> }
    ELSE { << NewForklift(cfg, i, i + 1, t0, r) >> \o rest :
              r \in e.initSpeedDraws, rest \in NewForklifts(cfg, e, t0, i + 1) }

\* initializeEntities: the entity maps the constructor can build at time t0.
InitializeEntities(cfg, e, lanes, conns, t0) ==
    LET types == [ k \in 1..(cfg.palletCount + cfg.workerCount) |->
                     IF k <= cfg.palletCount THEN "pallet" ELSE "worker" ]
    IN  { f \o l : f \in NewForklifts(cfg, e, t0, 0),
                   l \in NewLaneEntities(cfg, e, lanes, conns, t0, types,
                                         cfg.forkliftCount + 1) }

\* The state after `new LaneNavigator(lanes)` and `new WarehouseSimulator(cfg, ...)`.
Built(cfg, e, lanes) ==
    /\ config = cfg
    /\ env = e
    /\ laneNetwork = lanes
    /\ laneConnections = BuildLaneConnections(lanes)
    /\ entities \in InitializeEntities(cfg, e, lanes, BuildLaneConnections(lanes), 0)
    /\ running = FALSE
    /\ intervalId = 0
    /\ timers = {}
    /\ startCalls = 0
    /\ ignoredCalls = {}
    /\ now = 0
    /\ logCounter = 0
    /\ lastPositions = << >>
    /\ lastEvents = << >>
    /\ callbackLog = << >>
    /\ tickLog = << >>
    /\ emitted = {}
    /\ navResult = [op |-> "none"]
    /\ currentMode = "simulation"
    /\ telemetryBuffer = << >>
    /\ serviceLog = [op |-> "none"]

\* The same, with no call of the dashboard's path utilities made.
Constructed(cfg, e, lanes) ==
    /\ Built(cfg, e, lanes)
    /\ snapResult = [op |-> "none"]

\* start() without the `if (this.running) return` guard.
Start_NoGuard ==
    /\ startCalls < env.maxStarts
    /\ startCalls' = startCalls + 1
    /\ running' = TRUE
    /\ intervalId' = startCalls + 1
    /\ timers' = timers \cup { [id |-> startCalls + 1, cb |-> startCalls + 1] }
    /\ UNCHANGED ignoredCalls
    /\ UNCHANGED << simVars, fixedVars, serviceVars >>

\* start(onPositionUpdate, onEvent): a no-op while running, else one new timer.
StartCall ==
    /\ startCalls < env.maxStarts
    /\ startCalls' = startCalls + 1
    /\ IF running
       THEN /\ ignoredCalls' = ignoredCalls \cup { startCalls + 1 }
            /\ UNCHANGED << running, intervalId, timers >>
       ELSE /\ running' = TRUE
            /\ intervalId' = startCalls + 1
            /\ timers' = timers \cup { [id |-> startCalls + 1, cb |-> startCalls + 1] }
            /\ UNCHANGED ignoredCalls

\* A call of start() from outside the service.
Start == StartCall /\ UNCHANGED << simVars, fixedVars, serviceVars >>

\* stop() that clears the flag and the id but not the interval timer.
Stop_KeepTimer ==
    /\ IF ~running
       THEN UNCHANGED << running, intervalId, timers >>
       ELSE /\ running' = FALSE
            /\ intervalId' = 0
            /\ UNCHANGED timers
    /\ UNCHANGED << startCalls, ignoredCalls, simVars, fixedVars, serviceVars >>

\* stop(): a no-op unless running, else the timer is cleared.
StopCall ==
    /\ IF ~running
       THEN UNCHANGED << running, intervalId, timers >>
       ELSE /\ running' = FALSE
            /\ timers' = { t \in timers : intervalId = 0 \/ t.id # intervalId }
            /\ intervalId' = 0
    /\ UNCHANGED << startCalls, ignoredCalls >>

\* A call of stop() from outside the service.
Stop == StopCall /\ UNCHANGED << simVars, fixedVars, serviceVars >>

IsRandomEvent(ev) == ev # NoEvent /\ ev.type \in RandomEventTypes

\* The events of the steps, in order, without the nulls.
RECURSIVE StepEvents(_, _)
StepEvents(steps, i) ==
    IF i > Len(steps) THEN << >>
    ELSE (IF steps[i].event = NoEvent THEN << >> ELSE << steps[i].event >>)
         \o StepEvents(steps, i + 1)

\* The tick body with the proximity detectors run on the entities as they
\* were before the updates.
Tick_DetectBeforeUpdate(t, late) ==
    LET time == now + config.tickMs + late
    IN  \E steps \in EntitySteps(config, env, laneNetwork, laneConnections,
                                 entities, time, 1) :
          LET updated == [ i \in 1..Len(steps) |-> steps[i].entity ]
              prox == CheckProximityEvents(config, updated, time)
              stale == CheckProximityEvents(config, entities, time)
              events == StepEvents(steps, 1) \o stale.events
          IN  /\ entities' = prox.entities
              /\ now' = time
              /\ logCounter' = logCounter + 1
              /\ lastPositions' = [ i \in 1..Len(steps) |-> steps[i].position ]
              /\ lastEvents' = events
              /\ callbackLog' =
                    << [cb |-> t.cb, call |-> "onPositionUpdate"] >>
                    \o [ k \in 1..Len(events) |-> [cb |-> t.cb, call |-> "onEvent"] ]
              /\ tickLog' = [ i \in 1..Len(steps) |->
                               [ thrown |-> steps[i].thrown,
                                 transitioned |-> steps[i].transitioned,
                                 newRoute |-> steps[i].newRoute,
                                 reachedEnd |-> steps[i].reachedEnd,
                                 advanced |-> steps[i].advanced,
                                 before |-> entities[i],
                                 moved |-> steps[i].moved,
                                 updated |-> steps[i].entity ] ]
              /\ emitted' = emitted \cup
                    { [id |-> steps[i].entity.id, t |-> time] :
                        i \in { j \in 1..Len(steps) : steps[j].event # NoEvent } }
              /\ UNCHANGED << timerVars, fixedVars, serviceVars >>

\* The body of the interval callback of timer t, which fires `late` ms late.
Tick(t, late) ==
    LET time == now + config.tickMs + late
    IN  \E steps \in EntitySteps(config, env, laneNetwork, laneConnections,
                                 entities, time, 1) :
          LET updated == [ i \in 1..Len(steps) |-> steps[i].entity ]
              prox == CheckProximityEvents(config, updated, time)
              events == StepEvents(steps, 1) \o prox.events
          IN  /\ entities' = prox.entities
              /\ now' = time
              /\ logCounter' = logCounter + 1
              /\ lastPositions' = [ i \in 1..Len(steps) |-> steps[i].position ]
              /\ lastEvents' = events
              /\ callbackLog' =
                    << [cb |-> t.cb, call |-> "onPositionUpdate"] >>
                    \o [ k \in 1..Len(events) |-> [cb |-> t.cb, call |-> "onEvent"] ]
              /\ tickLog' = [ i \in 1..Len(steps) |->
                               [ thrown |-> steps[i].thrown,
                                 transitioned |-> steps[i].transitioned,
                                 newRoute |-> steps[i].newRoute,
                                 reachedEnd |-> steps[i].reachedEnd,
                                 advanced |-> steps[i].advanced,
                                 before |-> entities[i],
                                 moved |-> steps[i].moved,
                                 updated |-> steps[i].entity ] ]
              /\ emitted' = emitted \cup
                    { [id |-> steps[i].entity.id, t |-> time] :
                        i \in { j \in 1..Len(steps) : steps[j].event # NoEvent } }
              /\ UNCHANGED << timerVars, fixedVars, serviceVars >>

TimerFires ==
    /\ logCounter < env.maxTicks
    /\ \E t \in timers : \E late \in env.late : Tick(t, late)

Next == Start \/ Stop \/ TimerFires

-----------------------------------------------------------------------------
(***************************************************************************)
(* Scenarios.  The lane file (config/lanes.json) is an input of the        *)
(* service: the model runs the simulator on a small network that has a     *)
(* lane shorter than 1.0, two connected lanes, a lane no other lane is     *)
(* near, and a lane without points.                                        *)
(***************************************************************************)
SimNetwork ==
    << Lane("A", << Pt(12500, 10000), Pt(12500, 10150) >>),
       Lane("B", << Pt(12500, 10150), Pt(12650, 10150) >>),
       Lane("C", << Pt(30000, 5000), Pt(30100, 5000) >>),
       Lane("Z", << >>) >>

MaxTicks == 3

MaxStarts == 2

ForkliftCount == 1

PalletCount == 1

WorkerCount == 1

\* congestionThreshold is a constructor input; the service passes 3.
CongestionThreshold == 2

SimConfig ==
    [ ServiceConfig EXCEPT !.forkliftCount = ForkliftCount,
                           !.palletCount = PalletCount,
                           !.workerCount = WorkerCount,
                           !.congestionThreshold = CongestionThreshold ]

BaseEnv ==
    [ maxTicks |-> MaxTicks, maxStarts |-> MaxStarts, late |-> { 0 },
      initLanes |-> { 1, 3, 4 }, initSpeedDraws |-> { 999 }, progressDraws |-> { 0 },
      speedDraws |-> { 0 }, gateDraws |-> { 0, 999 }, jitterDraws |-> { 0 },
      variationDraws |-> { 0 }, dirDraws |-> { 1 }, reachDraws |-> { 0 },
      reasonDraws |-> { 1 }, severityDraws |-> { "high", "medium" },
      confidenceDraws |-> { 0 }, maxMessages |-> 0 ]

Init == Constructed(SimConfig, BaseEnv, SimNetwork)

Spec == Init /\ [][Next]_vars

-----------------------------------------------------------------------------
(***************************************************************************)
(* Properties                                                              *)
(***************************************************************************)

\* The entity at index i is a lane entity (a pallet or a worker).
IsLaneEntity(i) == entities[i].type # "forklift"

\* C1: start() while the simulator runs changes nothing.  At most one
\* interval timer exists, it exists exactly while running and is the one
\* intervalId names, and the callback calls of a tick never go to the
\* callbacks of a start() that was ignored.
C1_SingleTickLoop ==
    /\ Cardinality(timers) <= 1
    /\ running <=> timers # {}
    /\ \A t \in timers : t.id = intervalId
    /\ \A k \in DOMAIN callbackLog : callbackLog[k].cb \notin ignoredCalls

\* A start() was ignored and the one loop has ticked.
C1_IgnoredStartAndTick ==
    /\ ignoredCalls # {}
    /\ running
    /\ logCounter > 0
    /\ callbackLog # << >>

\* The ids initializeEntities gives the entities: one counter over the
\* forklifts, then the pallets, then the workers.
ConstructedIds ==
    LET f == config.forkliftCount
        p == config.palletCount
        w == config.workerCount
    IN  { << "forklift", n >> : n \in 1..f }
        \cup { << "pallet", n >> : n \in (f + 1)..(f + p) }
        \cup { << "worker", n >> : n \in (f + p + 1)..(f + p + w) }

\* C2: the entity set is fixed at construction, and every tick delivers
\* exactly one position batch that holds exactly one record for every entity,
\* whether or not an update failed.
C2_OneRecordPerEntity ==
    /\ Len(entities) = Cardinality(ConstructedIds)
    /\ \A id \in ConstructedIds :
          Cardinality({ i \in DOMAIN entities : entities[i].id = id }) = 1
    /\ logCounter > 0 =>
          /\ Cardinality({ k \in DOMAIN callbackLog :
                             callbackLog[k].call = "onPositionUpdate" }) = 1
          /\ Len(lastPositions) = Len(entities)
          /\ \A id \in ConstructedIds :
                Cardinality({ i \in DOMAIN lastPositions : lastPositions[i].id = id }) = 1
          /\ \A i \in DOMAIN lastPositions : lastPositions[i].t = now

\* A tick in which the update of an entity threw and the batch is complete.
C2_BatchDespiteFailure ==
    /\ logCounter > 0
    /\ \E i \in DOMAIN tickLog : tickLog[i].thrown # ""
    /\ Len(lastPositions) = Cardinality(ConstructedIds)

\* C3: when the update of an entity throws, that entity is left in a valid
\* state -- a forklift on a path line with its target cleared, any other
\* entity on the first point of a lane of the network with progress 0 and a
\* route that starts at that lane -- and every entity is still stepped in
\* that tick.
C3_FailedUpdateResets ==
    /\ logCounter > 0 => Len(tickLog) = Len(entities)
    /\ \A i \in DOMAIN tickLog :
          tickLog[i].thrown # "" =>
             LET e == tickLog[i].updated
             IN  IF e.type = "forklift"
                 THEN IsOnStrictPath(e.x, e.y) /\ e.targetPosition = NoTarget
                 ELSE /\ HasLane(laneNetwork, e.currentLaneId)
                      /\ Len(GetLane(laneNetwork, e.currentLaneId).points) > 0
                      /\ e.x = GetLane(laneNetwork, e.currentLaneId).points[1].x
                      /\ e.y = GetLane(laneNetwork, e.currentLaneId).points[1].y
                      /\ e.laneProgress = 0
                      /\ e.routeIndex = 0
                      /\ Len(e.route) >= 1
                      /\ e.route[1] = e.currentLaneId

\* C24: after every tick the zone id of every entity is the zone
\* getZoneFromPosition gives for its position, the zone id of its position
\* record is the zone of the position in that record, and no zone id is
\* missing or 'unknown'.
C24_ZoneMatchesPosition ==
    logCounter > 0 =>
       \A i \in DOMAIN entities :
          /\ entities[i].zoneId = GetZoneFromPosition(entities[i].x, entities[i].y)
          /\ lastPositions[i].zoneId
               = GetZoneFromPosition(lastPositions[i].x, lastPositions[i].y)
          /\ entities[i].zoneId \notin { "", "unknown" }

\* C17: while the simulator is stopped no tick runs, so no position batch and
\* no event reaches a callback until the next start(); stop() on a stopped
\* simulator changes nothing; stop() on a running one clears its timer and
\* leaves the entities as they are; a start() on a stopped simulator sets up
\* exactly one timer over the entities as they were left, and a running
\* simulator always has its one timer to tick with.
C17_StopHaltsAndStartResumes ==
    /\ [](running => Cardinality(timers) = 1)
    /\ [][ /\ ~running => UNCHANGED simVars
           /\ (~running /\ startCalls' = startCalls) => UNCHANGED vars
           /\ (running /\ ~running') => (timers' = {} /\ UNCHANGED simVars)
           /\ (~running /\ running') =>
                 /\ Cardinality(timers') = 1
                 /\ \A t \in timers' : t.cb = startCalls'
                 /\ UNCHANGED simVars ]_vars

\* Stopped for the second time, after the loop of the second start() ran a
\* tick that went to its callbacks: start, stop, start, tick, stop.
C17_StoppedAfterRestart ==
    /\ ~running
    /\ timers = {}
    /\ startCalls = 2
    /\ ignoredCalls = {}
    /\ logCounter > 0
    /\ callbackLog # << >>
    /\ callbackLog[1].cb = 2

\* The update of entity i in the last tick made a lane transition.
LaneTransition(i) ==
    /\ tickLog[i].before.type # "forklift"
    /\ tickLog[i].thrown = ""
    /\ tickLog[i].transitioned

\* The connections of the lane entity i was on before the last tick.
ConnectionsBefore(i) ==
    SeqToSet(ConnectionsGet(laneConnections, tickLog[i].before.currentLaneId))

\* Before the last tick the route of entity i had a lane after the cursor.
HasPlannedNext(i) ==
    tickLog[i].before.routeIndex < Len(tickLog[i].before.route) - 1

\* That lane.
PlannedNext(i) == tickLog[i].before.route[tickLog[i].before.routeIndex + 2]

\* The planned lane of entity i was a connection of the lane it was on.
PlannedIsConnection(i) == HasPlannedNext(i) /\ PlannedNext(i) \in ConnectionsBefore(i)

\* The transition of entity i followed its route.
PlanFollowed(i) ==
    /\ HasPlannedNext(i)
    /\ ~tickLog[i].newRoute
    /\ tickLog[i].updated.route = tickLog[i].before.route
    /\ tickLog[i].updated.routeIndex = tickLog[i].before.routeIndex + 1
    /\ tickLog[i].updated.currentLaneId = PlannedNext(i)

\* The transition of entity i started a fresh route rooted at the lane it was
\* on and went on from the second element of that route, or stayed on the
\* lane when the route has no second element.
FreshRoute(i) ==
    /\ tickLog[i].newRoute
    /\ tickLog[i].updated.route
         \in GenerateRandomRoute(laneConnections, tickLog[i].before.currentLaneId, 5)
    /\ tickLog[i].updated.route[1] = tickLog[i].before.currentLaneId
    /\ tickLog[i].updated.routeIndex = 0
    /\ tickLog[i].updated.currentLaneId =
          IF Len(tickLog[i].updated.route) >= 2 THEN tickLog[i].updated.route[2]
          ELSE tickLog[i].before.currentLaneId

\* C19: at a lane transition the planned next lane is taken exactly when it is
\* a connection of the current lane; otherwise the entity goes to a lane the
\* lane graph offers for the current lane (a connection, or for a dead end a
\* lane that lists it); when the graph offers none, a fresh random route
\* rooted at the current lane is generated and the entity goes on from its
\* second element.  In every case lane progress is reset to 0.
C19_TransitionPolicy ==
    \A i \in DOMAIN tickLog :
       LaneTransition(i) =>
          /\ tickLog[i].updated.laneProgress = 0
          /\ PlanFollowed(i) => PlannedIsConnection(i)
          /\ PlannedIsConnection(i) => PlanFollowed(i)
          /\ (~PlannedIsConnection(i) /\ ~tickLog[i].newRoute) =>
                /\ tickLog[i].updated.route = tickLog[i].before.route
                /\ tickLog[i].updated.currentLaneId
                     \in ConnectionsBefore(i)
                           \cup { b \in DOMAIN laneConnections :
                                    /\ b # tickLog[i].before.currentLaneId
                                    /\ tickLog[i].before.currentLaneId
                                         \in SeqToSet(laneConnections[b]) }
          /\ tickLog[i].newRoute <=>
                /\ ~PlannedIsConnection(i)
                /\ ConnectionsBefore(i) = {}
          /\ tickLog[i].newRoute => FreshRoute(i)

\* In one tick an entity followed its route to a connected lane and another,
\* on a lane without connections, started a fresh route.
C19_PlanFollowedAndFreshRoute ==
    /\ \E i \in DOMAIN tickLog :
          LaneTransition(i) /\ PlanFollowed(i) /\ PlannedIsConnection(i)
    /\ \E j \in DOMAIN tickLog : LaneTransition(j) /\ FreshRoute(j)

-----------------------------------------------------------------------------
(***************************************************************************)
(* The slow-down scenario: two workers that start together on one lane of  *)
(* length 1.0 with the lowest speed of their range, every jitter draw at   *)
(* its lowest value, over enough ticks for the penalties to add up.        *)
(***************************************************************************)
SpeedNetwork == << Lane("S", << Pt(12500, 10000), Pt(12500, 11000) >>) >>

SpeedTicks == 50

SpeedWorkers == 2

SpeedConfig ==
    [ ServiceConfig EXCEPT !.forkliftCount = 0, !.palletCount = 0,
                           !.workerCount = SpeedWorkers ]

SpeedEnv ==
    [ BaseEnv EXCEPT !.maxTicks = SpeedTicks, !.initLanes = { 1 },
                     !.initSpeedDraws = { 0 }, !.gateDraws = { 999 } ]

InitSpeed == Constructed(SpeedConfig, SpeedEnv, SpeedNetwork)

SpecSpeed == InitSpeed /\ [][Next]_vars

\* C5: the speed of every entity is non-negative in every reachable state.
C5_SpeedNonNegative == \A i \in DOMAIN entities : entities[i].speed >= 0

\* C4: right after every update of a lane entity laneProgress is within
\* [0, 1], and the update makes a lane transition exactly when the advanced
\* progress reaches or exceeds 1.
C4_ProgressWithinUnit ==
    \A i \in DOMAIN tickLog :
       (tickLog[i].before.type # "forklift" /\ tickLog[i].thrown = "") =>
          /\ tickLog[i].updated.laneProgress >= 0
          /\ tickLog[i].updated.laneProgress <= Unit
          /\ tickLog[i].transitioned <=> tickLog[i].advanced >= Unit
          /\ tickLog[i].transitioned => tickLog[i].updated.laneProgress = 0

\* The update of entity i in the last tick made a lane transition with the
\* route cursor on the last element of the route.
ExhaustedTransition(i) ==
    /\ tickLog[i].before.type # "forklift"
    /\ tickLog[i].transitioned
    /\ tickLog[i].before.routeIndex = Len(tickLog[i].before.route) - 1

\* The route of every lane entity is non-empty and its cursor is within it.
RouteCursorInBounds ==
    \A i \in DOMAIN entities :
       IsLaneEntity(i) =>
          /\ Len(entities[i].route) >= 1
          /\ entities[i].routeIndex >= 0
          /\ entities[i].routeIndex < Len(entities[i].route)

\* C6 as claimed: the route is non-empty and routeIndex < route.length, and a
\* lane transition with the cursor on the last route element generates a new
\* route.
C6_ExhaustedRouteRegenerates ==
    /\ RouteCursorInBounds
    /\ \A i \in DOMAIN tickLog : ExhaustedTransition(i) => tickLog[i].newRoute

\* C6, amended: the route is non-empty and routeIndex < route.length; a lane
\* transition with the cursor on the last route element keeps the route and
\* the cursor and moves to a lane that chooseNextLane offers, and it
\* generates a new route, with the cursor back at 0, only when chooseNextLane
\* offers none.
C6_CursorStaysInBounds ==
    /\ RouteCursorInBounds
    /\ \A i \in DOMAIN tickLog :
          ExhaustedTransition(i) =>
             LET before == tickLog[i].before
                 updated == tickLog[i].updated
                 offered == ChooseNextLane(laneNetwork, laneConnections,
                                           before.currentLaneId, before.route,
                                           before.routeIndex)
             IN  IF tickLog[i].newRoute
                 THEN /\ offered = { NoLane }
                      /\ updated.routeIndex = 0
                      /\ updated.route[1] = before.currentLaneId
                 ELSE /\ updated.route = before.route
                      /\ updated.routeIndex = before.routeIndex
                      /\ updated.currentLaneId \in offered \ { NoLane }

\* One entity made a transition with an exhausted route and kept its route,
\* another one got a new route.
C6_ExhaustedBothWays ==
    \E i, j \in DOMAIN tickLog :
       /\ ExhaustedTransition(i) /\ ~tickLog[i].newRoute
       /\ ExhaustedTransition(j) /\ tickLog[j].newRoute

\* The lane ids an entity can be on: the ids of the network and the current
\* lane ids of the entities ("grid" for the forklifts).
OccupiableLaneIds ==
    { laneNetwork[k].id : k \in DOMAIN laneNetwork }
    \cup { entities[i].currentLaneId : i \in DOMAIN entities }

\* The ids of the entities whose current lane is laneId.
OccupantIds(laneId) ==
    { entities[i].id : i \in { j \in DOMAIN entities : entities[j].currentLaneId = laneId } }

\* The congestion events of the last tick for laneId.
CongestionEventsOf(laneId) ==
    { k \in DOMAIN lastEvents :
        lastEvents[k].type = "congestion" /\ lastEvents[k].zoneId = laneId }

\* C7: in each tick a lane id gets a congestion event iff at least
\* congestionThreshold entities have it as current lane; there is exactly one
\* event for such a lane, and it lists exactly the occupants of the lane.
C7_CongestionIffThreshold ==
    logCounter > 0 =>
       /\ \A laneId \in OccupiableLaneIds :
             Cardinality(CongestionEventsOf(laneId)) =
                IF Cardinality(OccupantIds(laneId)) >= config.congestionThreshold
                THEN 1 ELSE 0
       /\ \A k \in DOMAIN lastEvents :
             lastEvents[k].type = "congestion" =>
                /\ lastEvents[k].zoneId \in OccupiableLaneIds
                /\ SeqToSet(lastEvents[k].assetIds) = OccupantIds(lastEvents[k].zoneId)
                /\ Len(lastEvents[k].assetIds) =
                      Cardinality(OccupantIds(lastEvents[k].zoneId))

\* A tick with a lane at the threshold, which got its event, and an occupied
\* lane below it, which got none.
C7_CongestedAndNot ==
    /\ logCounter > 0
    /\ \E laneId \in OccupiableLaneIds :
          /\ Cardinality(OccupantIds(laneId)) = config.congestionThreshold
          /\ CongestionEventsOf(laneId) # {}
    /\ \E laneId \in OccupiableLaneIds :
          /\ Cardinality(OccupantIds(laneId)) > 0
          /\ Cardinality(OccupantIds(laneId)) < config.congestionThreshold
          /\ CongestionEventsOf(laneId) = {}

\* The near-collision events of the last tick that name entities i and j, in
\* that order.
PairEvents(i, j) ==
    { k \in DOMAIN lastEvents :
        /\ lastEvents[k].type = "nearCollision"
        /\ lastEvents[k].assetIds = << entities[i].id, entities[j].id >> }

\* Entities i and j are less than collisionRadius apart and one of them is
\* faster than 0.1.
QualifyingPair(i, j) ==
    LET dx == entities[i].x - entities[j].x
        dy == entities[i].y - entities[j].y
    IN  /\ dx * dx + dy * dy < config.collisionRadius * config.collisionRadius
        /\ (entities[i].speed > 100 \/ entities[j].speed > 100)

\* The number of near-collision events of the last tick that name entity i.
PenaltiesOf(i) ==
    Cardinality({ k \in DOMAIN lastEvents :
                    /\ lastEvents[k].type = "nearCollision"
                    /\ entities[i].id \in SeqToSet(lastEvents[k].assetIds) })

\* C8: in each tick every pair of distinct entities gets exactly one
\* near-collision event naming both iff the two are less than collisionRadius
\* apart and one of them is faster than 0.1, and every such event halves the
\* target speed of both.
C8_NearCollisionIffClose ==
    logCounter > 0 =>
       /\ \A i, j \in DOMAIN entities :
             i < j =>
                /\ Cardinality(PairEvents(i, j)) = IF QualifyingPair(i, j) THEN 1 ELSE 0
                /\ PairEvents(j, i) = {}
       /\ \A k \in DOMAIN lastEvents :
             lastEvents[k].type = "nearCollision" =>
                \E i, j \in DOMAIN entities : i < j /\ k \in PairEvents(i, j)
       /\ \A i \in DOMAIN entities :
             entities[i].targetSpeed =
                Halved(tickLog[i].updated.targetSpeed, PenaltiesOf(i))

\* A tick with a near collision, which halved a target speed, and a pair too
\* far apart for one.
C8_CloseAndFarPairs ==
    /\ logCounter > 0
    /\ \E i \in DOMAIN entities :
          /\ PenaltiesOf(i) = 1
          /\ 2 * entities[i].targetSpeed <= tickLog[i].updated.targetSpeed
          /\ tickLog[i].updated.targetSpeed > 0
    /\ \E i, j \in DOMAIN entities :
          i < j /\ ~QualifyingPair(i, j) /\ PairEvents(i, j) = {}

-----------------------------------------------------------------------------
(***************************************************************************)
(* The cooldown scenario: the interval callback can run late, so that the  *)
(* clock passes the 30 s cooldown of the random events within a few ticks, *)
(* reaching it exactly or missing it by 100 ms.                            *)
(***************************************************************************)
ClockTicks == 3

ClockForklifts == 1

ClockWorkers == 1

ClockConfig ==
    [ ServiceConfig EXCEPT !.forkliftCount = ClockForklifts, !.palletCount = 0,
                           !.workerCount = ClockWorkers,
                           !.congestionThreshold = 1 ]

ClockEnv ==
    [ BaseEnv EXCEPT !.maxTicks = ClockTicks, !.late = { 0, 29800, 29900 },
                     !.initLanes = { 1 }, !.severityDraws = { "high" } ]

InitClock == Constructed(ClockConfig, ClockEnv, SpeedNetwork)

SpecClock == InitClock /\ [][Next]_vars

\* The random operational events of the last tick for entity i.
RandomEventsOf(i) ==
    { k \in DOMAIN lastEvents :
        /\ lastEvents[k].type \in RandomEventTypes
        /\ lastEvents[k].assetIds = << entities[i].id >> }

\* C22 as stated: the detectors of a tick change nothing of an entity but
\* its target speed, halved once for every near-collision event that names it.
C22_DetectorsChangeOnlyTargetSpeed ==
    \A i \in DOMAIN tickLog :
       entities[i] = [ tickLog[i].moved EXCEPT
                         !.targetSpeed = Halved(@, PenaltiesOf(i)) ]

\* C22, with the bookkeeping of the random-event detector: the detectors of a
\* tick change nothing of an entity but its target speed, halved once for
\* every near-collision event that names it, and its last-event time, set to
\* the time of the tick when a random operational event is emitted for it.
C22_DetectorsChangeTargetSpeedAndEventTime ==
    \A i \in DOMAIN tickLog :
       entities[i] = [ tickLog[i].moved EXCEPT
                         !.targetSpeed = Halved(@, PenaltiesOf(i)),
                         !.lastEventTime = IF RandomEventsOf(i) # {} THEN now ELSE @ ]

\* A tick in which one entity got both a random operational event, which
\* moved its last-event time, and a near-collision penalty.
C22_EventAndPenaltyInOneTick ==
    \E i \in DOMAIN tickLog :
       /\ RandomEventsOf(i) # {}
       /\ PenaltiesOf(i) >= 1
       /\ entities[i].lastEventTime = now
       /\ tickLog[i].moved.lastEventTime # now
       /\ entities[i].targetSpeed < tickLog[i].moved.targetSpeed

\* The index of the entity with this id.
IndexOf(id) == CHOOSE i \in DOMAIN entities : entities[i].id = id

\* The detectors in the order their events are pushed.
DetectorRank(ev) ==
    IF ev.type \in RandomEventTypes THEN 1
    ELSE IF ev.type = "nearCollision" THEN 2 ELSE 3

\* The ids of the entities that are on lane laneId after the updates of the
\* last tick, in entity order.
OccupantsAfterUpdate(laneId) ==
    LET on == SelectSeq([ i \in DOMAIN tickLog |-> tickLog[i].moved ],
                        LAMBDA e : e.currentLaneId = laneId)
    IN  [ k \in DOMAIN on |-> on[k].id ]

\* The event was computed from the entities as the updates of the last tick
\* left them.
FromUpdatedEntities(ev) ==
    IF ev.type \in RandomEventTypes
    THEN ev.zoneId = tickLog[IndexOf(ev.assetIds[1])].moved.zoneId
    ELSE IF ev.type = "nearCollision"
    THEN LET e1 == tickLog[IndexOf(ev.assetIds[1])].moved
             e2 == tickLog[IndexOf(ev.assetIds[2])].moved
             d == Distance(Pt(e1.x, e1.y), Pt(e2.x, e2.y))
         IN  /\ ev.payload.distance = ((d + 5) \div 10) * 10
             /\ ev.payload.closingSpeed = Abs(e1.speed - e2.speed)
             /\ ev.zoneId = e1.zoneId
    ELSE /\ ev.assetIds = OccupantsAfterUpdate(ev.zoneId)
         /\ ev.payload.occupancy = Len(ev.assetIds)

\* C23: in a tick the position batch holds every entity as its update left
\* it, every event is computed from the entities as the updates left them
\* (the random events, then the near collisions, then the congested lanes),
\* the first callback call is the one position batch, and it is followed by
\* one onEvent call per event of the tick, all to the callbacks of the timer.
C23_TickOrder ==
    logCounter > 0 =>
       /\ Len(callbackLog) = 1 + Len(lastEvents)
       /\ callbackLog[1].call = "onPositionUpdate"
       /\ \A k \in 2..Len(callbackLog) :
             callbackLog[k].call = "onEvent" /\ callbackLog[k].cb = callbackLog[1].cb
       /\ \A i \in DOMAIN lastPositions :
             /\ lastPositions[i].id = tickLog[i].moved.id
             /\ lastPositions[i].x = tickLog[i].moved.x
             /\ lastPositions[i].y = tickLog[i].moved.y
             /\ lastPositions[i].speed = tickLog[i].moved.speed
             /\ lastPositions[i].heading = tickLog[i].moved.heading
             /\ lastPositions[i].zoneId = tickLog[i].moved.zoneId
             /\ lastPositions[i].t = now
       /\ \A k \in DOMAIN lastEvents :
             /\ lastEvents[k].t = now
             /\ FromUpdatedEntities(lastEvents[k])
             /\ \A l \in DOMAIN lastEvents :
                   k < l => DetectorRank(lastEvents[k]) <= DetectorRank(lastEvents[l])

\* A tick that moved an entity and delivered the batch and then a random
\* event, a near collision and a congestion event.
C23_BatchThenThreeKinds ==
    /\ logCounter > 0
    /\ \E i \in DOMAIN tickLog :
          Pt(tickLog[i].moved.x, tickLog[i].moved.y)
            # Pt(tickLog[i].before.x, tickLog[i].before.y)
    /\ \A r \in 1..3 : \E k \in DOMAIN lastEvents : DetectorRank(lastEvents[k]) = r
    /\ Len(callbackLog) >= 4

\* C9: a random operational event of an entity is emitted only when at least
\* 30 s have passed since the last-event time of the entity, and it sets that
\* time to its timestamp; so two random operational events of one entity are
\* at least 30 s apart.
C9_CooldownBetweenEvents ==
    /\ \A i \in DOMAIN tickLog :
          /\ Cardinality(RandomEventsOf(i)) <= 1
          /\ \A k \in RandomEventsOf(i) :
                /\ lastEvents[k].t - tickLog[i].before.lastEventTime >= 30000
                /\ entities[i].lastEventTime = lastEvents[k].t
    /\ \A a, b \in emitted :
          (a.id = b.id /\ a.t < b.t) => b.t - a.t >= 30000

\* An entity emits its second random operational event, exactly 30 s after
\* its first.
C9_SecondEventAfterCooldown ==
    \E i \in DOMAIN tickLog :
       /\ RandomEventsOf(i) # {}
       /\ \E a \in emitted : a.id = entities[i].id /\ a.t = now - 30000

-----------------------------------------------------------------------------
(***************************************************************************)
(* The navigator scenario: a LaneNavigator built over a network of up to   *)
(* MaxLanes lanes of a catalog, and the queries made to it.  The catalog   *)
(* has lanes that share an endpoint, lanes whose endpoints are exactly     *)
(* 3.0 apart and just less (along an axis and diagonally), a lane that is  *)
(* near another lane only away from the endpoints, a lane of one point and *)
(* a lane of none.                                                         *)
(***************************************************************************)
NavCatalog ==
    { Lane("P", << Pt(0, 0), Pt(10000, 0) >>),
      Lane("Q", << Pt(10000, 0), Pt(10000, 8000) >>),
      Lane("R", << Pt(13000, 0), Pt(20000, 0) >>),
      Lane("T", << Pt(18000, 5000), Pt(12999, 0) >>),
      Lane("U", << Pt(5000, 5000), Pt(5000, 100) >>),
      Lane("V", << Pt(0, 2000) >>),
      Lane("W", << Pt(1800, 2400), Pt(1800, 9000) >>),
      Lane("X", << Pt(1799, -2400), Pt(7000, -9000) >>),
      Lane("Z", << >>) }

MaxLanes == 3

MaxRouteLength == 3

\* The networks: the sequences of distinct lanes of the catalog.
RECURSIVE NetworksOf(_)
NetworksOf(n) ==
    IF n = 0 THEN { << >> }
    ELSE { Append(net, lane) :
              net \in { m \in NetworksOf(n - 1) : Len(m) = n - 1 },
              lane \in NavCatalog }

NavNetworks ==
    { net \in UNION { NetworksOf(n) : n \in 1..MaxLanes } :
        \A i, j \in DOMAIN net : i # j => net[i].id # net[j].id }

NavConfig ==
    [ ServiceConfig EXCEPT !.forkliftCount = 0, !.palletCount = 0, !.workerCount = 0 ]

InitNav == \E net \in NavNetworks : Constructed(NavConfig, BaseEnv, net)

\* The lane ids the queries are made with: the ids of the network and one id
\* that no lane has.
QueryIds == { laneNetwork[k].id : k \in DOMAIN laneNetwork } \cup { "ghost" }

\* The positions nearestPointOnLane is asked for.
QueryPositions == { Pt(5000, 1000), Pt(15000, 300) }

\* A query leaves everything but its result as it is.
QueryFrame ==
    UNCHANGED << simVars, timerVars, config, env, laneNetwork, laneConnections,
                 snapResult, serviceVars >>

\* chooseNextLane(currentLaneId, entity) for an entity at the start of a route
\* << currentLaneId >> or << currentLaneId, next >>.
QueryChooseNextLane ==
    \E id \in QueryIds, next \in QueryIds \cup { NoLane } :
       LET route == IF next = NoLane THEN << id >> ELSE << id, next >>
       IN  \E result \in ChooseNextLane(laneNetwork, laneConnections, id, route, 0) :
              /\ navResult' = [ op |-> "chooseNextLane", lane |-> id, route |-> route,
                                routeIndex |-> 0, thrown |-> "", result |-> result ]
              /\ QueryFrame

\* generateRandomRoute(startLaneId, length).
QueryRandomRoute ==
    \E id \in QueryIds, length \in 1..MaxRouteLength :
       \E result \in GenerateRandomRoute(laneConnections, id, length) :
          /\ navResult' = [ op |-> "generateRandomRoute", lane |-> id,
                            length |-> length, thrown |-> "", result |-> result ]
          /\ QueryFrame

\* getLane(laneId): the lane, or undefined.
QueryGetLane ==
    \E id \in QueryIds :
       /\ navResult' = [ op |-> "getLane", lane |-> id, thrown |-> "",
                         result |-> IF HasLane(laneNetwork, id)
                                    THEN GetLane(laneNetwork, id) ELSE NoResult ]
       /\ QueryFrame

\* advanceAlongLane(entity, deltaTime) for an entity on lane id.
QueryAdvanceAlongLane ==
    \E id \in QueryIds, laneProgress \in { 500 }, distanceToTravel \in { 0, 200 } :
       LET advancement == AdvanceAlongLane(laneNetwork,
                              [currentLaneId |-> id, laneProgress |-> laneProgress],
                              distanceToTravel)
       IN  /\ navResult' = [ op |-> "advanceAlongLane", lane |-> id,
                             thrown |-> advancement.thrown, result |-> advancement ]
           /\ QueryFrame

\* nearestPointOnLane(position).
QueryNearestPoint ==
    \E position \in QueryPositions :
       /\ navResult' = [ op |-> "nearestPointOnLane", lane |-> NoLane, thrown |-> "",
                         result |-> NearestPointOnLane(laneNetwork, position) ]
       /\ QueryFrame

NextNav ==
    \/ QueryChooseNextLane
    \/ QueryRandomRoute
    \/ QueryGetLane
    \/ QueryAdvanceAlongLane
    \/ QueryNearestPoint

SpecNav == InitNav /\ [][NextNav]_vars

\* The first and the last point of lane k of the network; none for a lane
\* without points.
Endpoints(k) ==
    LET points == laneNetwork[k].points
    IN  IF Len(points) = 0 THEN {} ELSE { points[1], points[Len(points)] }

\* The square of the distance of two points.
SquaredDistance(p, q) == (p.x - q.x) * (p.x - q.x) + (p.y - q.y) * (p.y - q.y)

\* Lane b of the network is in connections(lane a).
Connected(a, b) ==
    /\ laneNetwork[a].id \in DOMAIN laneConnections
    /\ laneNetwork[b].id \in SeqToSet(laneConnections[laneNetwork[a].id])

-----------------------------------------------------------------------------
(***************************************************************************)
(* Graph scenario: a simulator on a network of two catalog lanes, ticking  *)
(* while the navigator is queried                                          *)
(***************************************************************************)

GraphTicks == 2

GraphStarts == 1

\* The networks: two distinct lanes out of P, Q, R and T of the catalog.
GraphNetworks ==
    { net \in NavNetworks :
        Len(net) = 2 /\ \A k \in DOMAIN net : net[k].id \in { "P", "Q", "R", "T" } }

GraphConfig ==
    [ ServiceConfig EXCEPT !.forkliftCount = 0, !.palletCount = 1, !.workerCount = 0 ]

GraphEnv ==
    [ BaseEnv EXCEPT !.maxTicks = GraphTicks, !.maxStarts = GraphStarts,
                     !.initLanes = { 1, 2 }, !.gateDraws = { 999 } ]

InitGraph == \E net \in GraphNetworks : Constructed(GraphConfig, GraphEnv, net)

\* The simulator's handlers with navResult left alone, and the queries.
NextGraph ==
    \/ Start
    \/ Stop
    \/ TimerFires
    \/ QueryChooseNextLane
    \/ QueryRandomRoute
    \/ QueryGetLane
    \/ QueryAdvanceAlongLane
    \/ QueryNearestPoint

SpecGraph == InitGraph /\ [][NextGraph]_vars

\* The ids of the lanes of the network.
LaneIds == { laneNetwork[k].id : k \in DOMAIN laneNetwork }

\* connections(a) holds b.
Lists(a, b) == b \in SeqToSet(ConnectionsGet(laneConnections, a))

Undirected == \A a, b \in LaneIds : Lists(a, b) <=> Lists(b, a)

NoSelfEdges == \A a \in LaneIds : ~Lists(a, a)

-----------------------------------------------------------------------------
(***************************************************************************)
(* Dead-end scenario: networks in which two lanes may carry one id.  The   *)
(* constructor takes any lane array; of two lanes with one id the later    *)
(* one sets the entry of the map, so a lane can be listed by another lane  *)
(* and have no connections of its own.                                     *)
(***************************************************************************)

DupCatalog ==
    { Lane("Q", << Pt(10000, 0), Pt(10000, 8000) >>),
      Lane("R", << Pt(13000, 0), Pt(20000, 0) >>),
      Lane("D", << Pt(10000, 8000), Pt(10000, 16000) >>),
      Lane("D", << Pt(20000, 20000), Pt(25000, 20000) >>) }

MaxDupLanes == 3

\* The networks: the sequences of distinct lanes of DupCatalog.
RECURSIVE DupNetworksOf(_)
DupNetworksOf(n) ==
    IF n = 0 THEN { << >> }
    ELSE { Append(net, lane) :
              net \in { m \in DupNetworksOf(n - 1) : Len(m) = n - 1 },
              lane \in DupCatalog }

DupNetworks ==
    { net \in UNION { DupNetworksOf(n) : n \in 1..MaxDupLanes } :
        \A i, j \in DOMAIN net : i # j => net[i] # net[j] }

InitDup == \E net \in DupNetworks : Constructed(NavConfig, BaseEnv, net)

SpecDup == InitDup /\ [][NextNav]_vars

\* The lanes of the graph, other than `id`, that list `id` as a connection.
ListersOf(id) ==
    { b \in DOMAIN laneConnections :
        b # id /\ id \in SeqToSet(laneConnections[b]) }

\* The last query was chooseNextLane for a lane without connections.
DeadEndQuery ==
    /\ navResult.op = "chooseNextLane"
    /\ Len(ConnectionsGet(laneConnections, navResult.lane)) = 0

\* C12: chooseNextLane for a lane with zero connections returns a lane other
\* than that lane that lists it as a connection whenever such a lane exists,
\* and null only when no lane of the graph lists it.
C12_DeadEndReversal ==
    DeadEndQuery =>
        /\ navResult.thrown = ""
        /\ navResult.result # NoLane => navResult.result \in ListersOf(navResult.lane)
        /\ navResult.result = NoLane => ListersOf(navResult.lane) = {}

\* chooseNextLane on a lane of the network without connections returned the
\* lane that lists it.
C12_ReversalTaken ==
    /\ DeadEndQuery
    /\ HasLane(laneNetwork, navResult.lane)
    /\ navResult.result # NoLane
    /\ navResult.result \in ListersOf(navResult.lane)

\* The last query was generateRandomRoute.
RouteQuery == navResult.op = "generateRandomRoute"

\* The connections of route[i - 1] other than route[i - 2].
Alternatives(route, i) ==
    SeqToSet(ConnectionsGet(laneConnections, route[i - 1])) \ { route[i - 2] }

\* C13: in a route generateRandomRoute returns, a hop goes back to the lane
\* two positions earlier only when the lane in between has no connection
\* other than that lane.
C13_NoImmediateBacktrack ==
    RouteQuery =>
        \A i \in 3..Len(navResult.result) :
            Alternatives(navResult.result, i) # {}
                => navResult.result[i] # navResult.result[i - 2]

\* A route of three lanes whose middle lane had an alternative, which the
\* last hop took.
C13_AlternativeTaken ==
    /\ RouteQuery
    /\ Len(navResult.result) = 3
    /\ Alternatives(navResult.result, 3) # {}
    /\ navResult.result[3] # navResult.result[1]

\* The last query named a lane id that no lane of the network has.
UnknownLaneQuery ==
    /\ navResult.op \in { "advanceAlongLane", "chooseNextLane",
                          "generateRandomRoute", "getLane" }
    /\ ~HasLane(laneNetwork, navResult.lane)

\* C14: a query of the lane graph with a lane id that is not in the network
\* (advanceAlongLane, chooseNextLane, generateRandomRoute, getLane) throws at
\* the call and returns no result.
C14_UnknownLaneFailsFast == UnknownLaneQuery => navResult.thrown # ""

-----------------------------------------------------------------------------
(***************************************************************************)
(* Dashboard path utilities (pathValidation.ts).  Coordinates in tenths of *)
(* a unit, tolerances and maximum distances in hundredths; distances are   *)
(* compared on their squares, in hundredths squared, which is exact.       *)
(***************************************************************************)

PathSegment(id, x1, y1, x2, y2) == [id |-> id, start |-> Pt(x1, y1), end |-> Pt(x2, y2)]

WAREHOUSE_PATHS ==
    << PathSegment("top-horizontal-line", 20, 78, 460, 78),
       PathSegment("middle-horizontal-line", 20, 112, 460, 112),
       PathSegment("bottom-horizontal-line", 20, 146, 460, 146),
       PathSegment("vertical-line-1", 95, 25, 95, 195),
       PathSegment("vertical-line-2", 165, 25, 165, 195),
       PathSegment("vertical-line-3", 235, 25, 235, 195),
       PathSegment("vertical-line-4", 305, 25, 305, 195),
       PathSegment("vertical-line-5", 375, 25, 375, 195),
       PathSegment("left-boundary", 20, 25, 20, 195),
       PathSegment("right-boundary", 445, 25, 445, 195) >>

\* Division rounding to the nearest integer (b > 0).
RoundDiv(a, b) == IF a >= 0 THEN (2 * a + b) \div (2 * b)
                            ELSE -((2 * (-a) + b) \div (2 * b))

\* (dx ** 2 + dy ** 2) of two points, in hundredths squared.
SquaredHundredths(p, q) ==
    ((p.x - q.x) * (p.x - q.x) + (p.y - q.y) * (p.y - q.y)) * 100

\* start + param * (end - start) for param = dot / lenSq.
AlongSegment(segment, dot, lenSq) ==
    Pt(segment.start.x + RoundDiv(dot * (segment.end.x - segment.start.x), lenSq),
       segment.start.y + RoundDiv(dot * (segment.end.y - segment.start.y), lenSq))

\* A * C + B * D
SegmentDot(point, segment) ==
    (point.x - segment.start.x) * (segment.end.x - segment.start.x)
      + (point.y - segment.start.y) * (segment.end.y - segment.start.y)

\* C * C + D * D
SegmentLenSq(segment) ==
    (segment.end.x - segment.start.x) * (segment.end.x - segment.start.x)
      + (segment.end.y - segment.start.y) * (segment.end.y - segment.start.y)

\* distanceToLineSegment, squared.
DistanceToLineSegment(point, segment) ==
    LET dot == SegmentDot(point, segment)
        lenSq == SegmentLenSq(segment)
    IN  IF lenSq = 0 THEN SquaredHundredths(point, segment.start)
        ELSE IF dot < 0 THEN SquaredHundredths(point, segment.start)
        ELSE IF dot > lenSq THEN SquaredHundredths(point, segment.end)
        ELSE SquaredHundredths(point, AlongSegment(segment, dot, lenSq))

\* The projection of snapToNearestPath with param left unclamped.
ProjectOnto_Unclamped(point, segment) ==
    AlongSegment(segment, SegmentDot(point, segment), SegmentLenSq(segment))

\* The projection of snapToNearestPath: param clamped to [0, 1].
ProjectOnto(point, segment) ==
    LET lenSq == SegmentLenSq(segment)
    IN  AlongSegment(segment, Max(0, Min(lenSq, SegmentDot(point, segment))), lenSq)

\* The loop of snapToNearestPath from segment i on; minDistance is kept squared.
RECURSIVE SnapFrom(_, _, _, _)
SnapFrom(point, i, closestPoint, minDistance) ==
    IF i > Len(WAREHOUSE_PATHS) THEN closestPoint
    ELSE LET segment == WAREHOUSE_PATHS[i]
             proj == ProjectOnto(point, segment)
             distance == SquaredHundredths(point, proj)
         IN  IF SegmentLenSq(segment) = 0
             THEN SnapFrom(point, i + 1, closestPoint, minDistance)
             ELSE IF distance < minDistance
             THEN SnapFrom(point, i + 1, proj, distance)
             ELSE SnapFrom(point, i + 1, closestPoint, minDistance)

\* snapToNearestPath(point, maxDistance) of pathValidation.ts.
SnapToValidPath(point, maxDistance) == SnapFrom(point, 1, point, maxDistance * maxDistance)

\* isOnValidPath(point, tolerance)
IsOnValidPath(point, tolerance) ==
    \E i \in DOMAIN WAREHOUSE_PATHS :
        DistanceToLineSegment(point, WAREHOUSE_PATHS[i]) <= tolerance * tolerance

\* The points, in tenths: on a line, beside a line, past the end of a line,
\* between lines, and outside the floor.
SnapXs == { 0, 15, 20, 60, 95, 100, 300, 445, 460, 470, 600 }

SnapYs == { 0, 20, 25, 78, 80, 95, 112, 195, 210, 400 }

SnapPoints == { Pt(x, y) : x \in SnapXs, y \in SnapYs }

\* The pairs << maxDistance, tolerance >> with maxDistance > tolerance > 0, in
\* hundredths; << 200, 50 >> are the defaults.
SnapLimits == { << 200, 50 >>, << 200, 10 >>, << 60, 50 >>, << 20, 10 >> }

\* The state before a call: the arguments drawn, nothing computed yet.
InitPath ==
    \E point \in SnapPoints, limits \in SnapLimits :
       /\ Built(NavConfig, BaseEnv, << >>)
       /\ snapResult = [ op |-> "call", point |-> point,
                         maxDistance |-> limits[1], tolerance |-> limits[2] ]

\* isOnValidPath(snapToNearestPath(point, maxDistance), tolerance)
SnapAndValidate ==
    /\ snapResult.op = "call"
    /\ LET snapped == SnapToValidPath(snapResult.point, snapResult.maxDistance)
       IN  snapResult' = [ snapResult EXCEPT !.op = "snapToNearestPath" ]
                           @@ [ snapped |-> snapped,
                                onPath |-> IsOnValidPath(snapped, snapResult.tolerance) ]
    /\ UNCHANGED << simVars, timerVars, config, env, laneNetwork,
                    laneConnections, navResult, serviceVars >>

NextPath == SnapAndValidate

SpecPath == InitPath /\ [][NextPath]_vars

\* A snap was made.
Snapped == snapResult.op = "snapToNearestPath"

\* Some path line is less than maxDistance from the point of the last snap.
LineWithinMaxDistance ==
    \E i \in DOMAIN WAREHOUSE_PATHS :
        DistanceToLineSegment(snapResult.point, WAREHOUSE_PATHS[i])
            < snapResult.maxDistance * snapResult.maxDistance

\* C15 as stated: for every point, tolerance t > 0 and maxDistance d > t, the
\* snapped point is on a valid path.
C15_SnapLandsOnPath == Snapped => snapResult.onPath

\* C15, for the points that have a path line less than maxDistance away: the
\* snapped point is on a valid path exactly when such a line exists, and a point
\* without one is returned unchanged.
C15_SnapLandsOnPathIffInReach ==
    Snapped =>
        /\ snapResult.onPath <=> LineWithinMaxDistance
        /\ ~LineWithinMaxDistance => snapResult.snapped = snapResult.point

\* A point off every path line by more than the tolerance, with a line in
\* reach, was moved onto a path.
C15_OffPathPointSnapped ==
    /\ Snapped
    /\ ~IsOnValidPath(snapResult.point, snapResult.tolerance)
    /\ LineWithinMaxDistance
    /\ snapResult.snapped # snapResult.point
    /\ snapResult.onPath

-----------------------------------------------------------------------------
(***************************************************************************)
(* Grid scenario: one forklift on every start position of the constructor, *)
(* no lane entities, over enough ticks for the forklifts on the vertical   *)
(* lines to reach the horizontal line and for targets to be renewed.       *)
(***************************************************************************)

GridForklifts == 9

GridTicks == 40

GridConfig ==
    [ ServiceConfig EXCEPT !.forkliftCount = GridForklifts, !.palletCount = 0,
                           !.workerCount = 0 ]

GridEnv ==
    [ BaseEnv EXCEPT !.maxTicks = GridTicks, !.gateDraws = { 999 },
                     !.severityDraws = { "high" } ]

\* Every target is chosen in one direction, up the lines or down the lines;
\* the forklifts start at the top of their speed range and choose the nearest
\* targets, or start in the middle of the range and choose targets halfway.
InitGrid ==
    \E dir \in { 1, -1 }, draw \in { 999, 500 } :
       Constructed(GridConfig,
                   [GridEnv EXCEPT !.dirDraws = { dir },
                                   !.initSpeedDraws = { draw },
                                   !.reachDraws = { 999 - draw }],
                   SimNetwork)

SpecGrid == InitGrid /\ [][Next]_vars

\* The entity stands on a strict path line.
OnStrictPath(e) == IsOnStrictPath(e.x, e.y)

\* Points off every path line: the corner of the floor, just above the
\* horizontal line, between two vertical lines, below and right of the lines.
OffPathPoints ==
    { Pt(0, 0), Pt(8000, 11500), Pt(20000, 5000), Pt(12500, 2000), Pt(50000, 11200) }

\* What updateForkliftGridMovement leaves of forklift e put at point p.
HealedFrom(e, p) ==
    UpdateForkliftGridMovement(config, [e EXCEPT !.x = p.x, !.y = p.y],
                               env.dirDraws, env.reachDraws, env.variationDraws)

\* C16: every start position of the constructor is on a strict path line, and
\* every forklift is on one after construction and after every tick.  A
\* forklift that an update finds off the lines is put on the nearest line and
\* given a target on that line, and its speed and heading are left as they
\* were.
C16_ForkliftOnStrictPath ==
    /\ \A k \in DOMAIN gridStartPositions :
          IsOnStrictPath(gridStartPositions[k].x, gridStartPositions[k].y)
    /\ \A i \in DOMAIN entities :
          entities[i].type = "forklift" => OnStrictPath(entities[i])
    /\ \A i \in DOMAIN tickLog :
          tickLog[i].before.type = "forklift" =>
             /\ OnStrictPath(tickLog[i].updated)
             /\ ~OnStrictPath(tickLog[i].before) =>
                   /\ tickLog[i].updated.speed = tickLog[i].before.speed
                   /\ tickLog[i].updated.heading = tickLog[i].before.heading
    /\ \A i \in DOMAIN entities : \A p \in OffPathPoints :
          entities[i].type = "forklift" =>
             /\ ~IsOnStrictPath(p.x, p.y)
             /\ \A healed \in HealedFrom(entities[i], p) :
                   /\ Pt(healed.x, healed.y) = SnapToNearestPath(p.x, p.y)
                   /\ OnStrictPath(healed)
                   /\ healed.targetPosition # NoTarget
                   /\ IsOnStrictPath(healed.targetPosition.x, healed.targetPosition.y)
                   /\ healed.speed = entities[i].speed
                   /\ healed.heading = entities[i].heading

\* A forklift that started on a vertical line, moved in the last tick and
\* stands on the horizontal line away from its column.
C16_ForkliftTurnedOntoLine ==
    \E i \in DOMAIN tickLog :
       /\ tickLog[i].before.type = "forklift"
       /\ Pt(tickLog[i].before.x, tickLog[i].before.y)
            # Pt(tickLog[i].updated.x, tickLog[i].updated.y)
       /\ gridStartPositions[i].y # 11200
       /\ tickLog[i].updated.y = 11200
       /\ tickLog[i].updated.x # gridStartPositions[i].x
       /\ OnStrictPath(tickLog[i].updated)

\* The last query was chooseNextLane for a lane that has a connection.
ConnectedLaneQuery ==
    /\ navResult.op = "chooseNextLane"
    /\ Len(ConnectionsGet(laneConnections, navResult.lane)) > 0

\* The connections of the lane of the last query.
QueryConnections == SeqToSet(ConnectionsGet(laneConnections, navResult.lane))

\* route[routeIndex + 1] of the last query exists and is a connection.
PlannedNextValid ==
    /\ Len(navResult.route) > navResult.routeIndex + 1
    /\ navResult.route[navResult.routeIndex + 2] \in QueryConnections

\* C18: for a lane with at least one connection chooseNextLane returns the
\* next planned lane when the route has one and it is a connection of the
\* lane, and a connection of the lane otherwise; it never returns null or a
\* lane that is not a connection.
C18_PlannedOrConnection ==
    ConnectedLaneQuery =>
        /\ navResult.thrown = ""
        /\ navResult.result # NoLane
        /\ navResult.result \in QueryConnections
        /\ PlannedNextValid =>
              navResult.result = navResult.route[navResult.routeIndex + 2]

\* The planned lane was returned for a lane that has another connection too.
C18_PlannedTakenAmongSeveral ==
    /\ ConnectedLaneQuery
    /\ PlannedNextValid
    /\ Cardinality(QueryConnections) > 1
    /\ navResult.result = navResult.route[navResult.routeIndex + 2]

\* Lane b is a connection of lane a.
IsConnection(a, b) == b \in SeqToSet(ConnectionsGet(laneConnections, a))

\* C20: generateRandomRoute(start, n) starts with start, every two
\* consecutive lanes of the route are connected, the route is never longer
\* than n, and it is shorter than n only when its last lane has no connection.
C20_RouteShape ==
    RouteQuery =>
        LET route == navResult.result
        IN  /\ navResult.thrown = ""
            /\ Len(route) >= 1
            /\ route[1] = navResult.lane
            /\ \A i \in 1..(Len(route) - 1) : IsConnection(route[i], route[i + 1])
            /\ Len(route) <= navResult.length
            /\ Len(route) < navResult.length =>
                  Len(ConnectionsGet(laneConnections, route[Len(route)])) = 0

\* A route of the full length n = 3 over connected lanes.
C20_FullLengthRoute ==
    /\ RouteQuery
    /\ navResult.length = 3
    /\ Len(navResult.result) = 3
    /\ IsConnection(navResult.result[1], navResult.result[2])
    /\ IsConnection(navResult.result[2], navResult.result[3])

\* Point p lies on path line k: on the line itself and within its extent.
OnPathLine(k, p) ==
    /\ Across(pathLines[k], p.x, p.y) = pathLines[k].c
    /\ Along(pathLines[k], p.x, p.y) >= pathLines[k].from
    /\ Along(pathLines[k], p.x, p.y) <= pathLines[k].to

\* The last tick gave forklift i a target other than the one it had.
TargetChosen(i) ==
    /\ tickLog[i].before.type = "forklift"
    /\ tickLog[i].updated.targetPosition # tickLog[i].before.targetPosition

\* C21: at the end of every tick every forklift has a target position that
\* lies on a path line within the line's extent; a target chosen in the tick
\* lies on the line getCurrentPathLine finds for the position the forklift had
\* when it was chosen.
C21_TargetOnPathLine ==
    \A i \in DOMAIN tickLog :
       tickLog[i].before.type = "forklift" =>
          /\ tickLog[i].updated.targetPosition # NoTarget
          /\ entities[i].targetPosition = tickLog[i].updated.targetPosition
          /\ \E k \in DOMAIN pathLines : OnPathLine(k, tickLog[i].updated.targetPosition)
          /\ TargetChosen(i) =>
                /\ GetCurrentPathLine(tickLog[i].before.x, tickLog[i].before.y) # 0
                /\ OnPathLine(GetCurrentPathLine(tickLog[i].before.x, tickLog[i].before.y),
                              tickLog[i].updated.targetPosition)

\* A forklift that had reached its target on a vertical line got a new
\* target at the upper end of that line, where the clamp cut it.
C21_TargetClampedToLineEnd ==
    \E i \in DOMAIN tickLog :
       /\ TargetChosen(i)
       /\ tickLog[i].before.targetPosition # NoTarget
       /\ tickLog[i].updated.targetPosition.y = 19200
       /\ tickLog[i].updated.y < 19200

-----------------------------------------------------------------------------
(***************************************************************************)
(* Lane scenario: a pallet and a worker on a network whose lanes all have  *)
(* at least one point: two connected lanes, a lane no other lane is near   *)
(* and a lane of a single point.                                           *)
(***************************************************************************)

LanesNetwork ==
    << Lane("A", << Pt(12500, 10000), Pt(12500, 10150) >>),
       Lane("B", << Pt(12500, 10150), Pt(12650, 10150) >>),
       Lane("C", << Pt(30000, 5000), Pt(30100, 5000) >>),
       Lane("O", << Pt(20000, 2000) >>) >>

LanesConfig == [ SimConfig EXCEPT !.forkliftCount = 0 ]

LanesEnv == [ BaseEnv EXCEPT !.initLanes = { 1, 3, 4 } ]

InitLanes == Constructed(LanesConfig, LanesEnv, LanesNetwork)

SpecLanes == InitLanes /\ [][Next]_vars

\* The transition of entity i in the last tick left it on the lane it was on.
StayedOnLane(i) ==
    tickLog[i].moved.currentLaneId = tickLog[i].before.currentLaneId

C27_ForkliftTargetSpeedNeverRises ==
    /\ [](\A i \in DOMAIN tickLog :
             tickLog[i].before.type = "forklift" =>
                /\ tickLog[i].moved.targetSpeed = tickLog[i].before.targetSpeed
                /\ entities[i].targetSpeed
                     = Halved(tickLog[i].before.targetSpeed, PenaltiesOf(i))
                /\ \A r \in ResetEntityToValidLane(laneNetwork, laneConnections,
                                                   entities[i]) :
                      r.targetSpeed = entities[i].targetSpeed)
    /\ [][\A i \in DOMAIN entities :
             entities[i].type = "forklift" =>
                /\ entities'[i].type = "forklift"
                /\ entities'[i].targetSpeed <= entities[i].targetSpeed]_vars

\* A forklift whose target speed a near collision of an earlier tick halved
\* goes through a tick without one and keeps the halved target speed.
C27_HalvedAndKept ==
    \E i \in DOMAIN tickLog :
       /\ tickLog[i].before.type = "forklift"
       /\ PenaltiesOf(i) = 0
       /\ entities[i].targetSpeed > 0
       /\ \A r \in env.initSpeedDraws :
             2 * entities[i].targetSpeed
                <= RandomSpeed(SpeedRangeOf(config, "forklift"), r)

\* The indexes of the forklifts.
Forklifts == { i \in DOMAIN entities : entities[i].type = "forklift" }

\* The congestion events of the last tick for the lane id 'grid'.
GridCongestion ==
    { k \in DOMAIN lastEvents :
        lastEvents[k].type = "congestion" /\ lastEvents[k].zoneId = "grid" }

\* C28: every forklift has the lane id 'grid' in every state, and when the
\* forklifts are at least congestionThreshold every tick emits one congestion
\* event for 'grid' that lists all the forklifts, in entity order, wherever
\* they are.
C28_GridCongestionEveryTick ==
    /\ \A i \in Forklifts : entities[i].currentLaneId = "grid"
    /\ (logCounter > 0 /\ Cardinality(Forklifts) >= config.congestionThreshold) =>
          /\ Cardinality(GridCongestion) = 1
          /\ \A k \in GridCongestion :
                /\ lastEvents[k].assetIds = Occupants(entities, "grid", 1)
                /\ SeqToSet(lastEvents[k].assetIds)
                     = { entities[i].id : i \in Forklifts }
                /\ lastEvents[k].payload.occupancy = Cardinality(Forklifts)

\* A tick emitted the congestion event for 'grid' while forklifts were in
\* different zones and two of them more than 20.0 apart along x.
C28_CongestionWhileSpreadOut ==
    /\ GridCongestion # {}
    /\ \E i, j \in Forklifts :
          /\ entities[i].zoneId # entities[j].zoneId
          /\ entities[i].x - entities[j].x > 20 * Unit

\* The forklift e is on the horizontal path line.
OnHorizontalLine(e) ==
    /\ e.y = pathLines[1].c
    /\ e.x >= pathLines[1].from
    /\ e.x <= pathLines[1].to

\* C29 as stated: a forklift that is on the horizontal path line is on it
\* after every later step.
C29_HorizontalLineAbsorbs ==
    [][\A i \in DOMAIN entities :
          (entities[i].type = "forklift" /\ OnHorizontalLine(entities[i])) =>
             OnHorizontalLine(entities'[i])]_vars

\* The forklift e is on the horizontal path line and has no target off it.
SettledOnHorizontalLine(e) ==
    /\ OnHorizontalLine(e)
    /\ e.targetPosition # NoTarget => e.targetPosition.y = pathLines[1].c

\* C29: a forklift that is on the horizontal path line with no target off
\* that line is so after every later step, and every target chosen for a
\* forklift on the horizontal line is on that line.  (A forklift on its way
\* along a vertical line can stop on y = 11.2 and go on along its line.)
C29_SettledOnHorizontalLineStays ==
    /\ [](\A i \in DOMAIN tickLog :
             (OnHorizontalLine(tickLog[i].before) /\ TargetChosen(i)) =>
                tickLog[i].updated.targetPosition.y = pathLines[1].c)
    /\ [][\A i \in DOMAIN entities :
             (entities[i].type = "forklift" /\ SettledOnHorizontalLine(entities[i])) =>
                SettledOnHorizontalLine(entities'[i])]_vars

\* A forklift that the constructor put on a vertical line is on the
\* horizontal line, was on it before the last tick and moved along it.
C29_JoinedLineAndStayed ==
    \E i \in DOMAIN tickLog :
       /\ tickLog[i].before.type = "forklift"
       /\ gridStartPositions[((i - 1) % Len(gridStartPositions)) + 1].y
            # pathLines[1].c
       /\ SettledOnHorizontalLine(tickLog[i].before)
       /\ SettledOnHorizontalLine(entities[i])
       /\ entities[i].x # tickLog[i].before.x

-----------------------------------------------------------------------------
(***************************************************************************)
(* The MQTT-capable service (mqtt-iot-service.ts): one simulator, the      *)
(* operation mode, and the telemetry buffer filled from MQTT messages.     *)
(* A string is kept as the number it starts with (NaN for none) and the    *)
(* text after that number; a payload as what JSON.parse makes of it and    *)
(* the parts split(',') cuts it into.                                      *)
(***************************************************************************)

MAX_BUFFER_SIZE == 1000

\* What parseFloat gives: NaN or a number.
NaN == [nan |-> TRUE, v |-> 0]

Finite(v) == [nan |-> FALSE, v |-> v]

Undefined == [undefined |-> TRUE]

Null == [null |-> TRUE]

\* JSON.parse threw.
SyntaxError == [error |-> "SyntaxError"]

JsNumber(v) == [kind |-> "number", v |-> v]

JsString(lead, rest) == [kind |-> "string", lead |-> lead, rest |-> rest]

\* parseFloat(value): a number as it is, the leading number of a string, NaN
\* for a string that starts with none and for undefined.
ParseFloat(value) ==
    IF value = Undefined THEN NaN
    ELSE IF value.kind = "number" THEN Finite(value.v)
    ELSE value.lead

\* The value is falsy: undefined, 0 or the empty string.
Falsy(value) ==
    \/ value = Undefined
    \/ value.kind = "number" /\ value.v = 0
    \/ value.kind = "string" /\ value.lead = NaN /\ value.rest = ""

\* value || fallback, for the fields read without parseFloat.
OrElse(value, fallback) ==
    IF Falsy(value) THEN fallback
    ELSE IF value.kind = "number" THEN Finite(value.v)
    ELSE IF value.lead = NaN THEN value.rest
    ELSE << value.lead, value.rest >>

\* The object of a JSON message with the fields x and y; the device sends its
\* id and confidence 0.85, and no type, speed, heading, zoneId or ts.
JsonObject(x, y) ==
    [ deviceId |-> JsString(NaN, "mqtt-device-1"), type |-> Undefined, x |-> x, y |-> y,
      speed |-> Undefined, heading |-> Undefined, zoneId |-> Undefined,
      confidence |-> JsNumber(850), ts |-> Undefined ]

JsonPayload(name, x, y) ==
    [ name |-> name, json |-> JsonObject(x, y), parts |-> << >> ]

\* A payload that is not JSON, cut at the commas.
TextPayload(name, parts) == [ name |-> name, json |-> SyntaxError, parts |-> parts ]

\* The messages the broker delivers: a JSON and a CSV reading of (5, 5); JSON
\* whose x is the string "5abc", the string "abc", or missing; the JSON text
\* null; CSV whose x is "abc" or empty; a text without a comma.
MqttPayloads ==
    { JsonPayload("json", JsNumber(5), JsNumber(5)),
      TextPayload("csv", << JsString(Finite(5), ""), JsString(Finite(5), "") >>),
      JsonPayload("json-prefix", JsString(Finite(5), "abc"), JsNumber(5)),
      JsonPayload("json-text", JsString(NaN, "abc"), JsNumber(5)),
      JsonPayload("json-missing", Undefined, JsNumber(5)),
      [ name |-> "json-null", json |-> Null, parts |-> << JsString(NaN, "null") >> ],
      TextPayload("csv-text", << JsString(NaN, "abc"), JsString(Finite(5), "") >>),
      TextPayload("csv-empty", << JsString(NaN, ""), JsString(Finite(5), "") >>),
      TextPayload("text", << JsString(NaN, "hello") >>) }

\* The record built from the JSON object (lines 91-101) at time t.
JsonPosition(data, t) ==
    [ id |-> OrElse(data.deviceId, << "device", t >>),
      type |-> OrElse(data.type, "forklift"),
      x |-> ParseFloat(data.x), y |-> ParseFloat(data.y),
      speed |-> OrElse(data.speed, Finite(0)),
      heading |-> OrElse(data.heading, Finite(0)),
      zoneId |-> data.zoneId,
      confidence |-> OrElse(data.confidence, Finite(900)),
      t |-> OrElse(data.ts, Finite(t)) ]

\* The record built from the CSV parts (lines 106-115) at time t.
CsvPosition(parts, t) ==
    [ id |-> "mqtt-device-1", type |-> "forklift",
      x |-> ParseFloat(parts[1]), y |-> ParseFloat(parts[2]),
      speed |-> IF Len(parts) >= 3 /\ ~Falsy(parts[3]) THEN ParseFloat(parts[3])
                ELSE Finite(0),
      heading |-> IF Len(parts) >= 4 /\ ~Falsy(parts[4]) THEN ParseFloat(parts[4])
                  ELSE Finite(0),
      zoneId |-> Undefined,
      confidence |-> Finite(850),
      t |-> Finite(t) ]

\* The two parsing attempts of the message handler: the record, or Undefined
\* when `Invalid CSV format` is thrown.  Reading a field of null throws, which
\* the inner catch takes like a JSON syntax error.
ParsePosition(payload, t) ==
    IF payload.json # SyntaxError /\ payload.json # Null
    THEN JsonPosition(payload.json, t)
    ELSE IF /\ Len(payload.parts) >= 2
            /\ ~Falsy(payload.parts[1])
            /\ ~Falsy(payload.parts[2])
    THEN CsvPosition(payload.parts, t)
    ELSE Undefined

\* telemetryBuffer.push(positionData); if longer than MAX_BUFFER_SIZE, shift().
PushPosition(buffer, positionData) ==
    LET pushed == Append(buffer, positionData)
    IN  IF Len(pushed) > MAX_BUFFER_SIZE THEN Tail(pushed) ELSE pushed

\* switchMode(newMode), as the change of the mode and the simulator's timer.
SwitchMode(newMode) ==
    IF currentMode = newMode
    THEN UNCHANGED << currentMode, timerVars >>
    ELSE /\ currentMode' = newMode
         /\ IF newMode = "simulation" THEN StartCall ELSE StopCall

\* The end of the module's top-level code: initializeMQTT(); switchMode('simulation').
Startup ==
    /\ serviceLog.op = "none"
    /\ SwitchMode("simulation")
    /\ serviceLog' = [op |-> "startup"]
    /\ UNCHANGED << simVars, fixedVars, telemetryBuffer >>

\* The modes a client can ask for.
RequestedModes == { "simulation", "mqtt", "auto" }

\* A WebSocket 'mode' message or POST /mode.
ModeRequest ==
    /\ serviceLog.op # "none"
    /\ \E mode \in RequestedModes :
          IF mode \in { "simulation", "mqtt" }
          THEN /\ SwitchMode(mode)
               /\ serviceLog' = [op |-> "mode", mode |-> mode, reply |-> mode]
          ELSE /\ UNCHANGED << currentMode, timerVars >>
               /\ serviceLog' = [op |-> "mode", mode |-> mode, reply |-> "error"]
    /\ UNCHANGED << simVars, fixedVars, telemetryBuffer >>

\* mqttClient.on('message'): the handler for one message, which reads the
\* clock 1 ms after its last reading; the model stops the broker when
\* maxMessages records are stored.
MqttMessage ==
    /\ serviceLog.op # "none"
    /\ Len(telemetryBuffer) < env.maxMessages
    /\ \E payload \in MqttPayloads :
          LET positionData == ParsePosition(payload, now + 1)
              outcome == IF currentMode # "mqtt" THEN "ignored"
                         ELSE IF positionData = Undefined THEN "error"
                         ELSE IF positionData.x = NaN \/ positionData.y = NaN
                         THEN "invalid"
                         ELSE "stored"
          IN  /\ serviceLog' = [op |-> "mqtt", payload |-> payload.name,
                                outcome |-> outcome]
              /\ IF outcome = "stored"
                 THEN /\ telemetryBuffer' = PushPosition(telemetryBuffer, positionData)
                      /\ now' = now + 1
                 ELSE UNCHANGED << telemetryBuffer, now >>
    /\ UNCHANGED << entities, logCounter, lastPositions, lastEvents, callbackLog,
                    tickLog, emitted, timerVars, fixedVars, currentMode >>

\* The service scenario: the simulator of the service (two forklifts), a few
\* ticks and restarts, and a broker that delivers messages until
\* ServiceMessages records are stored.
ServiceTicks == 2

ServiceStarts == 2

ServiceMessages == 2

MqttServiceConfig ==
    [ ServiceConfig EXCEPT !.forkliftCount = 2, !.palletCount = 0, !.workerCount = 0,
                           !.forkliftSpeedRange = << 1000, 2500 >>,
                           !.tickMs = 200 ]

MqttServiceEnv ==
    [ BaseEnv EXCEPT !.maxTicks = ServiceTicks, !.maxStarts = ServiceStarts,
                     !.maxMessages = ServiceMessages, !.gateDraws = { 999 },
                     !.severityDraws = { "high" } ]

InitService == Constructed(MqttServiceConfig, MqttServiceEnv, LanesNetwork)

NextService == Startup \/ ModeRequest \/ MqttMessage \/ TimerFires

SpecService == InitService /\ [][NextService]_vars

\* C26: once the service has started, the simulator is running exactly when
\* the operation mode is 'simulation'.
C26_RunningIffSimulationMode ==
    serviceLog.op # "none" => (running <=> currentMode = "simulation")

\* The payload of the message handled last.
LastPayload == CHOOSE p \in MqttPayloads : p.name = serviceLog'.payload

\* The value is a number or a string that is a number and nothing else.
IsNumeric(value) ==
    /\ value # Undefined
    /\ \/ value.kind = "number"
       \/ value.kind = "string" /\ value.lead # NaN /\ value.rest = ""

\* The message carries an x and a y, as JSON fields or as the first two
\* CSV parts, and both are numeric.
HasNumericPosition(payload) ==
    IF payload.json # SyntaxError
    THEN payload.json # Null /\ IsNumeric(payload.json.x) /\ IsNumeric(payload.json.y)
    ELSE /\ Len(payload.parts) >= 2
         /\ IsNumeric(payload.parts[1])
         /\ IsNumeric(payload.parts[2])

\* C30: the telemetry buffer never holds more than 1000 records; a message
\* with numeric x and y received in 'mqtt' mode appends one record and the
\* oldest record is dropped when that makes more than 1000; a message
\* received in 'simulation' mode or whose x or y is not numeric leaves the
\* buffer as it was.
C30_BufferBoundedAndFiltered ==
    /\ [](Len(telemetryBuffer) <= MAX_BUFFER_SIZE)
    /\ [][(serviceLog'.op = "mqtt" /\ serviceLog' # serviceLog) =>
             IF currentMode = "mqtt" /\ HasNumericPosition(LastPayload)
             THEN /\ Len(telemetryBuffer') = Min(Len(telemetryBuffer) + 1, MAX_BUFFER_SIZE)
                  /\ \A k \in 1..(Len(telemetryBuffer') - 1) :
                        telemetryBuffer'[k] =
                           telemetryBuffer[k + Len(telemetryBuffer) + 1
                                             - Len(telemetryBuffer')]
             ELSE telemetryBuffer' = telemetryBuffer]_vars

=============================================================================
